---- MODULE Spec2Model ----
(***************************************************************************)
(* Typed schema layer and lazy logical-plan builder of polars.             *)
(*                                                                         *)
(*   polars-core/src/datatypes.rs          DataType, Field, Schema,        *)
(*                                         AnyValue, Arrow conversions     *)
(*   polars-core/src/chunked_array/logical/date.rs   DateChunked           *)
(*   polars-lazy/src/logical_plan/builder.rs   LogicalPlanBuilder          *)
(*                                                                         *)
(* Rust values are modelled as follows.                                    *)
(*   DataType      a tuple whose first element is the variant name,        *)
(*                 followed by the variant's payload                        *)
(*   Option<T>     [some |-> FALSE] / [some |-> TRUE, val |-> v]           *)
(*   Result<T>     [ok |-> TRUE, val |-> v] / [ok |-> FALSE, err |-> e]    *)
(*   Vec<T>        a sequence; Rust's 0-based indices are kept in every    *)
(*                 value the code returns (index_of), and shifted by one   *)
(*                 only where a sequence is subscripted                    *)
(*   String        a string; format!("{}{}", a, b) is a \o b               *)
(*   AnyValue      a record holding the variant in av and the payload in   *)
(*                 the remaining fields                                    *)
(*   panic         [panic |-> msg] in place of the value returned          *)
(***************************************************************************)
EXTENDS Integers, Sequences, FiniteSets, TLC

VARIABLES
    lp,       \* LogicalPlanBuilder.0: the plan held by the builder
    prev,     \* the plan the builder held before the last call
    call,     \* the last builder call and its arguments
    status,   \* "ok", or "panicked" once a builder call has trapped
    schema,   \* a Schema value the schema functions are applied to
    op,       \* the last function applied, with its arguments
    ret,      \* what that function returned
    obj       \* the object the methods of the stateful classes are called on

vars == <<lp, prev, call, status, schema, op, ret, obj>>

builderVars == <<lp, prev, call, status>>
fnVars == <<schema, op, ret, obj>>

(***************************************************************************)
(* Bounds of the model.                                                    *)
(***************************************************************************)
MaxFields == 2      \* longest Schema drawn as an input of a schema function
MaxNames == 2       \* longest list of names passed to rename / det_melt_schema
MaxListDepth == 2   \* deepest nesting of DataType::List drawn as an input
MaxCalls == 2       \* longest chain of builder calls

(***************************************************************************)
(* Option and Result.                                                      *)
(***************************************************************************)
None == [some |-> FALSE]
Some(v) == [some |-> TRUE, val |-> v]

Ok(v) == [ok |-> TRUE, val |-> v]
Err(e) == [ok |-> FALSE, err |-> e]

\* PolarsError::NotFound(format!("Unable to get field named \"{}\". Valid
\* fields: {:?}", name, valid_fields)): the message is kept as its two
\* interpolated parts.
NotFound(name, valid_fields) ==
    [error |-> "NotFound", name |-> name, valid_fields |-> valid_fields]

(***************************************************************************)
(* TimeUnit and DataType.                                                  *)
(***************************************************************************)
TimeUnit == {"Nanoseconds", "Milliseconds"}

TimeZones == {None, Some("UTC")}

Boolean == <<"Boolean">>
UInt8 == <<"UInt8">>
UInt16 == <<"UInt16">>
UInt32 == <<"UInt32">>
UInt64 == <<"UInt64">>
Int8 == <<"Int8">>
Int16 == <<"Int16">>
Int32 == <<"Int32">>
Int64 == <<"Int64">>
Float32 == <<"Float32">>
Float64 == <<"Float64">>
Utf8 == <<"Utf8">>
Date == <<"Date">>
Datetime(tu, tz) == <<"Datetime", tu, tz>>
Duration(tu) == <<"Duration", tu>>
Time == <<"Time">>
List(inner) == <<"List", inner>>
Object(name) == <<"Object", name>>
Null == <<"Null">>
Categorical == <<"Categorical">>
Unknown == <<"Unknown">>

\* Every DataType whose payload is not another DataType.
FlatDataTypes ==
    { Boolean, UInt8, UInt16, UInt32, UInt64, Int8, Int16, Int32, Int64,
      Float32, Float64, Utf8, Date, Time, Null, Categorical, Unknown,
      Object("object") }
    \cup { Datetime(tu, tz) : tu \in TimeUnit, tz \in TimeZones }
    \cup { Duration(tu) : tu \in TimeUnit }

RECURSIVE DataTypesUpTo(_)
DataTypesUpTo(depth) ==
    IF depth = 0 THEN FlatDataTypes
    ELSE LET inner == DataTypesUpTo(depth - 1)
         IN  inner \cup { List(t) : t \in inner }

DataTypes == DataTypesUpTo(MaxListDepth)

\* A plausible slip: a logical type projected onto another logical type.
to_physical_chained(self) ==
    CASE self[1] = "Date" -> Int32
      [] self[1] = "Datetime" -> Int64
      [] self[1] = "Duration" -> Int64
      [] self[1] = "Time" -> Duration("Nanoseconds")
      [] self[1] = "Categorical" -> UInt32
      [] OTHER -> self

to_physical(self) ==
    CASE self[1] = "Date" -> Int32
      [] self[1] = "Datetime" -> Int64
      [] self[1] = "Duration" -> Int64
      [] self[1] = "Time" -> Int64
      [] self[1] = "Categorical" -> UInt32
      [] OTHER -> self

is_logical(self) == self # to_physical(self)

(***************************************************************************)
(* Field and Schema.                                                       *)
(***************************************************************************)
FieldNew(name, data_type) == [name |-> name, data_type |-> data_type]

SchemaNew(fields) == [fields |-> fields]

SchemaDefault == [fields |-> <<>>]

\* Iterator::position: the 0-based index of the first field from 1-based
\* place i on whose name is `name`.
RECURSIVE position(_, _, _)
position(fields, name, i) ==
    IF i > Len(fields) THEN None
    ELSE IF fields[i].name = name THEN Some(i - 1)
    ELSE position(fields, name, i + 1)

\* A plausible slip: the search runs from the back and finds the last match.
RECURSIVE rposition(_, _, _)
rposition(fields, name, i) ==
    IF i < 1 THEN None
    ELSE IF fields[i].name = name THEN Some(i - 1)
    ELSE rposition(fields, name, i - 1)

index_of_last(self, name) ==
    LET p == rposition(self.fields, name, Len(self.fields))
    IN  IF p.some THEN Ok(p.val)
        ELSE Err(NotFound(name, [k \in 1..Len(self.fields) |-> self.fields[k].name]))

index_of(self, name) ==
    LET p == position(self.fields, name, 1)
    IN  IF p.some THEN Ok(p.val)
        ELSE Err(NotFound(name, [k \in 1..Len(self.fields) |-> self.fields[k].name]))

field_with_name(self, name) ==
    LET i == index_of(self, name)
    IN  IF i.ok THEN Ok(self.fields[i.val + 1]) ELSE i

\* old_names.map(|name| self.index_of(name)).collect::<Result<Vec<_>>>():
\* the indices of all names, or the first error met.
RECURSIVE collect_index_of(_, _, _, _)
collect_index_of(self, old_names, k, acc) ==
    IF k > Len(old_names) THEN Ok(acc)
    ELSE LET i == index_of(self, old_names[k])
         IN  IF i.ok THEN collect_index_of(self, old_names, k + 1, Append(acc, i.val))
             ELSE i

\* for (i, name) in idx.into_iter().zip(new_names) { new_fields[i] = ... }
RECURSIVE rename_loop(_, _, _, _)
rename_loop(new_fields, idx, new_names, k) ==
    IF k > Len(idx) \/ k > Len(new_names) THEN new_fields
    ELSE LET i == idx[k] + 1
             dt == new_fields[i].data_type
         IN  rename_loop([new_fields EXCEPT ![i] = FieldNew(new_names[k], dt)],
                         idx, new_names, k + 1)

\* A plausible slip: names are looked up and replaced one at a time, so the
\* renames before a missing name have been applied when the error is met.
RECURSIVE rename_eager_loop(_, _, _, _)
rename_eager_loop(new_fields, old_names, new_names, k) ==
    IF k > Len(old_names) \/ k > Len(new_names) THEN Ok(SchemaNew(new_fields))
    ELSE LET i == index_of(SchemaNew(new_fields), old_names[k])
         IN  IF ~i.ok THEN Ok(SchemaNew(new_fields))
             ELSE rename_eager_loop(
                     [new_fields EXCEPT ![i.val + 1] =
                         FieldNew(new_names[k], new_fields[i.val + 1].data_type)],
                     old_names, new_names, k + 1)

rename_partial(self, old_names, new_names) ==
    rename_eager_loop(self.fields, old_names, new_names, 1)

rename(self, old_names, new_names) ==
    LET idx == collect_index_of(self, old_names, 1, <<>>)
    IN  IF ~idx.ok THEN idx
        ELSE Ok(SchemaNew(rename_loop(self.fields, idx.val, new_names, 1)))

\* The body of try_merge's loop over one schema's fields: a field is pushed
\* when no merged field has its name, and nothing else is written.
RECURSIVE merge_fields(_, _, _)
merge_fields(merged, fields, k) ==
    IF k > Len(fields) THEN merged
    ELSE LET field == fields[k]
             new_field == ~\E m \in 1..Len(merged) : merged[m].name = field.name
         IN  merge_fields(IF new_field THEN Append(merged, field) ELSE merged,
                          fields, k + 1)

\* A plausible slip: a field met again overwrites the merged field's type.
RECURSIVE merge_fields_overwrite(_, _, _)
merge_fields_overwrite(merged, fields, k) ==
    IF k > Len(fields) THEN merged
    ELSE LET field == fields[k]
             new_field == ~\E m \in 1..Len(merged) : merged[m].name = field.name
         IN  merge_fields_overwrite(
                 IF new_field THEN Append(merged, field)
                 ELSE [m \in 1..Len(merged) |->
                          IF merged[m].name = field.name THEN field ELSE merged[m]],
                 fields, k + 1)

RECURSIVE try_merge_loop(_, _, _)
try_merge_loop(merged, schemas, s) ==
    IF s > Len(schemas) THEN merged
    ELSE try_merge_loop(merge_fields(merged, schemas[s].fields, 1), schemas, s + 1)

RECURSIVE try_merge_overwrite_loop(_, _, _)
try_merge_overwrite_loop(merged, schemas, s) ==
    IF s > Len(schemas) THEN merged
    ELSE try_merge_overwrite_loop(
             merge_fields_overwrite(merged, schemas[s].fields, 1), schemas, s + 1)

try_merge_overwrite(schemas) ==
    Ok(SchemaNew(try_merge_overwrite_loop(SchemaDefault.fields, schemas, 1)))

try_merge(schemas) ==
    Ok(SchemaNew(try_merge_loop(SchemaDefault.fields, schemas, 1)))


(***************************************************************************)
(* A trapped call (panic!, expect, unwrap on Err, index out of bounds).    *)
(***************************************************************************)
Panic(msg) == [panic |-> msg]

IsPanic(v) == "panic" \in DOMAIN v

\* fields.iter().filter(|field| !value_vars.contains(field.name())).cloned()
RECURSIVE filter_not_contained(_, _, _)
filter_not_contained(fields, value_vars, k) ==
    IF k > Len(fields) THEN <<>>
    ELSE LET rest == filter_not_contained(fields, value_vars, k + 1)
             contains == \E v \in 1..Len(value_vars) : value_vars[v] = fields[k].name
         IN  IF ~contains THEN <<fields[k]>> \o rest ELSE rest

\* A plausible slip: the value column takes the type of the last value var.
det_melt_schema_last(value_vars, input_schema) ==
    LET fields == filter_not_contained(input_schema.fields, value_vars, 1)
    IN  IF Len(value_vars) = 0 THEN Panic("index out of bounds")
        ELSE LET value_field == field_with_name(input_schema, value_vars[Len(value_vars)])
             IN  IF ~value_field.ok THEN Panic("field not found")
                 ELSE SchemaNew(fields \o <<FieldNew("variable", Utf8),
                                            FieldNew("value", value_field.val.data_type)>>)

det_melt_schema(value_vars, input_schema) ==
    LET fields == filter_not_contained(input_schema.fields, value_vars, 1)
    IN  IF Len(value_vars) = 0 THEN Panic("index out of bounds")
        ELSE LET value_field == field_with_name(input_schema, value_vars[1])
             IN  IF ~value_field.ok THEN Panic("field not found")
                 ELSE SchemaNew(fields \o <<FieldNew("variable", Utf8),
                                            FieldNew("value", value_field.val.data_type)>>)

(***************************************************************************)
(* Inputs of the schema functions.                                         *)
(***************************************************************************)
Names == {"a", "b", "c"}

NewNames == {"a", "x"}

FieldTypes == {Int32, Utf8}

Fields == { FieldNew(n, t) : n \in Names, t \in FieldTypes }

SeqsUpTo(S, n) == UNION { [1..k -> S] : k \in 0..n }

\* Schema::new takes any field list: duplicate names are not rejected.
Schemas == { SchemaNew(fs) : fs \in SeqsUpTo(Fields, MaxFields) }

NameLists == SeqsUpTo(Names, MaxNames)

NewNameLists == SeqsUpTo(NewNames, MaxNames)

NoCall == [fn |-> "none"]

NoObject == [class |-> "none"]

InitFn ==
    /\ schema \in Schemas
    /\ op = NoCall
    /\ ret = None
    /\ obj = NoObject

IndexOf ==
    /\ op = NoCall
    /\ UNCHANGED builderVars
    /\ \E name \in Names :
        /\ op' = [fn |-> "index_of", name |-> name]
        /\ ret' = index_of(schema, name)
        /\ UNCHANGED <<schema, obj>>

Rename ==
    /\ op = NoCall
    /\ UNCHANGED builderVars
    /\ \E old_names \in NameLists, new_names \in NewNameLists :
        /\ op' = [fn |-> "rename", self |-> schema,
                  old_names |-> old_names, new_names |-> new_names]
        /\ ret' = rename(schema, old_names, new_names)
        /\ UNCHANGED <<schema, obj>>

TryMerge ==
    /\ op = NoCall
    /\ UNCHANGED builderVars
    /\ \E other \in Schemas :
        \E schemas \in {<<>>, <<schema>>, <<schema, other>>, <<other, schema, other>>} :
            /\ op' = [fn |-> "try_merge", schemas |-> schemas]
            /\ ret' = try_merge(schemas)
            /\ UNCHANGED <<schema, obj>>

DetMeltSchema ==
    /\ op = NoCall
    /\ UNCHANGED builderVars
    /\ \E value_vars \in NameLists :
        /\ op' = [fn |-> "det_melt_schema", value_vars |-> value_vars]
        /\ ret' = det_melt_schema(value_vars, schema)
        /\ UNCHANGED <<schema, obj>>


ToPhysical ==
    /\ op = NoCall
    /\ UNCHANGED builderVars
    /\ \E self \in DataTypes :
        /\ op' = [fn |-> "to_physical", self |-> self]
        /\ ret' = to_physical(self)
        /\ UNCHANGED <<schema, obj>>

IsLogical ==
    /\ op = NoCall
    /\ UNCHANGED builderVars
    /\ \E self \in DataTypes :
        /\ op' = [fn |-> "is_logical", self |-> self]
        /\ ret' = is_logical(self)
        /\ UNCHANGED <<schema, obj>>

(***************************************************************************)
(* Expressions.  Expr, Expr::to_field, rewrite_projections,                *)
(* expressions_to_schema, expr_output_name, has_expr and                   *)
(* combine_predicates_expr live outside the files at hand; they are        *)
(* modelled from the specification's description of them.                  *)
(***************************************************************************)
col(name) == [expr |-> "Column", name |-> name]
Wildcard == [expr |-> "Wildcard"]
alias(e, name) == [expr |-> "Alias", input |-> e, name |-> name]
cast(e, data_type) == [expr |-> "Cast", input |-> e, data_type |-> data_type]
sum(e) == [expr |-> "Agg", agg |-> "Sum", input |-> e]
is_not_null(e) == [expr |-> "IsNotNull", input |-> e]
and(l, r) == [expr |-> "BinaryExpr", left |-> l, op |-> "And", right |-> r]

Default == "Default"
Aggregation == "Aggregation"

RECURSIVE has_wildcard(_)
has_wildcard(e) ==
    CASE e.expr = "Wildcard" -> TRUE
      [] e.expr = "Column" -> FALSE
      [] e.expr = "BinaryExpr" -> has_wildcard(e.left) \/ has_wildcard(e.right)
      [] OTHER -> has_wildcard(e.input)

RECURSIVE replace_wildcard(_, _)
replace_wildcard(e, name) ==
    CASE e.expr = "Wildcard" -> col(name)
      [] e.expr = "Column" -> e
      [] e.expr = "BinaryExpr" ->
            [e EXCEPT !.left = replace_wildcard(e.left, name),
                      !.right = replace_wildcard(e.right, name)]
      [] OTHER -> [e EXCEPT !.input = replace_wildcard(e.input, name)]

\* The name of the column an expression produces.
RECURSIVE expr_output_name(_)
expr_output_name(e) ==
    CASE e.expr = "Column" -> Ok(e.name)
      [] e.expr = "Alias" -> Ok(e.name)
      [] e.expr = "Wildcard" -> Err("no root column name could be found")
      [] e.expr = "BinaryExpr" -> expr_output_name(e.left)
      [] OTHER -> expr_output_name(e.input)

\* The type a sum has in the aggregation context: small integers widen.
sum_dtype(data_type) == IF data_type = Int32 THEN Int64 ELSE data_type

RECURSIVE to_field(_, _, _)
to_field(e, input_schema, ctxt) ==
    CASE e.expr = "Column" -> field_with_name(input_schema, e.name)
      [] e.expr = "Wildcard" -> Err("wildcard not expanded")
      [] e.expr = "Alias" ->
            LET f == to_field(e.input, input_schema, ctxt)
            IN  IF f.ok THEN Ok(FieldNew(e.name, f.val.data_type)) ELSE f
      [] e.expr = "Cast" ->
            LET f == to_field(e.input, input_schema, ctxt)
            IN  IF f.ok THEN Ok(FieldNew(f.val.name, e.data_type)) ELSE f
      [] e.expr = "Agg" ->
            LET f == to_field(e.input, input_schema, ctxt)
            IN  IF ~f.ok THEN f
                ELSE IF ctxt = Aggregation
                     THEN Ok(FieldNew(f.val.name, sum_dtype(f.val.data_type)))
                     ELSE f
      [] e.expr = "IsNotNull" ->
            LET f == to_field(e.input, input_schema, ctxt)
            IN  IF f.ok THEN Ok(FieldNew(f.val.name, Boolean)) ELSE f
      [] e.expr = "BinaryExpr" ->
            LET f == to_field(e.left, input_schema, ctxt)
            IN  IF f.ok THEN Ok(FieldNew(f.val.name, Boolean)) ELSE f

\* One copy of a wildcard expression per field of the schema whose name is
\* not the output name of an expression of `exclude`.
RECURSIVE expand_wildcard(_, _, _, _)
expand_wildcard(e, fields, exclude, k) ==
    IF k > Len(fields) THEN <<>>
    ELSE LET rest == expand_wildcard(e, fields, exclude, k + 1)
             excluded == \E x \in 1..Len(exclude) :
                            expr_output_name(exclude[x]) = Ok(fields[k].name)
         IN  IF excluded THEN rest
             ELSE <<replace_wildcard(e, fields[k].name)>> \o rest

RECURSIVE rewrite_projections_from(_, _, _, _)
rewrite_projections_from(exprs, input_schema, exclude, k) ==
    IF k > Len(exprs) THEN <<>>
    ELSE (IF has_wildcard(exprs[k])
          THEN expand_wildcard(exprs[k], input_schema.fields, exclude, 1)
          ELSE <<exprs[k]>>)
         \o rewrite_projections_from(exprs, input_schema, exclude, k + 1)

rewrite_projections(exprs, input_schema, exclude) ==
    rewrite_projections_from(exprs, input_schema, exclude, 1)

\* The fields of the expressions in order; a trap when one has no field.
expressions_to_schema(exprs, input_schema, ctxt) ==
    LET fields == [k \in 1..Len(exprs) |-> to_field(exprs[k], input_schema, ctxt)]
    IN  IF \E k \in 1..Len(exprs) : ~fields[k].ok
        THEN Panic("called Result::unwrap() on an Err value")
        ELSE SchemaNew([k \in 1..Len(exprs) |-> fields[k].val])

\* The conjunction of a non-empty list of predicates, left to right.
RECURSIVE combine_predicates_expr(_, _, _)
combine_predicates_expr(exprs, k, single_pred) ==
    IF k > Len(exprs) THEN single_pred
    ELSE combine_predicates_expr(exprs, k + 1, and(single_pred, exprs[k]))

prepare_projection(exprs, input_schema) ==
    LET rewritten == rewrite_projections(exprs, input_schema, <<>>)
    IN  [exprs |-> rewritten,
         schema |-> expressions_to_schema(rewritten, input_schema, Default)]


(***************************************************************************)
(* Logical plans.  A node is a record whose "node" field names the         *)
(* LogicalPlan variant; the other fields are the variant's fields.  A      *)
(* DataFrame is kept as the list of its columns' fields.                   *)
(***************************************************************************)
DataFrameNewNoChecks(columns) == [columns |-> columns]

df_schema(df) == SchemaNew(df.columns)

\* LogicalPlan::schema: a node that carries a schema answers with it, any
\* other node with the schema of its input.
RECURSIVE lp_schema(_)
lp_schema(plan) ==
    CASE plan.node \in {"Selection", "Cache", "Sort", "Explode", "Distinct", "Slice"} ->
            lp_schema(plan.input)
      [] plan.node = "Udf" ->
            IF plan.schema.some THEN plan.schema.val ELSE lp_schema(plan.input)
      [] OTHER -> plan.schema

\* The plan after a call that trapped: self was moved into the call.
Moved == [node |-> "Moved"]

from_existing_df(df) ==
    [node |-> "DataFrameScan", df |-> df, schema |-> df_schema(df),
     projection |-> None, selection |-> None]

AllowedOptimizationsDefault ==
    [predicate_pushdown |-> "default", projection_pushdown |-> "default"]

\* |_| Ok(DataFrame::new_no_checks(vec![])): a function is kept as what it
\* returns for every input frame.
EmptyFrameFn == [returns |-> Ok(DataFrameNewNoChecks(<<>>))]

map(self, function, optimizations, schema_opt, name) ==
    [node |-> "Udf",
     input |-> self,
     function |-> function,
     options |-> [predicate_pd |-> optimizations.predicate_pushdown,
                  projection_pd |-> optimizations.projection_pushdown,
                  fmt_str |-> name],
     schema |-> schema_opt]

\* A plausible slip: the empty projection is treated like any other.
project_no_edge_case(self, exprs) ==
    LET pp == prepare_projection(exprs, lp_schema(self))
    IN  IF IsPanic(pp.schema) THEN pp.schema
        ELSE [node |-> "Projection", expr |-> pp.exprs, input |-> self,
              schema |-> pp.schema]

project(self, exprs) ==
    LET pp == prepare_projection(exprs, lp_schema(self))
    IN  IF IsPanic(pp.schema) THEN pp.schema
        ELSE IF pp.exprs = <<>>
        THEN map(self, EmptyFrameFn, AllowedOptimizationsDefault,
                 Some(SchemaDefault), "EMPTY PROJECTION")
        ELSE [node |-> "Projection", expr |-> pp.exprs, input |-> self,
              schema |-> pp.schema]

\* A plausible slip: a field that is replaced moves to the end.
RECURSIVE with_columns_loop_push(_, _, _, _)
with_columns_loop_push(new_fields, exprs, input_schema, k) ==
    IF k > Len(exprs) THEN new_fields
    ELSE LET field == to_field(exprs[k], input_schema, Default).val
         IN  with_columns_loop_push(
                 Append(SelectSeq(new_fields, LAMBDA f : f.name # field.name), field),
                 exprs, input_schema, k + 1)

\* The loop of with_columns: each expression's field replaces the field of
\* the input schema that has its name, or is pushed.
RECURSIVE with_columns_loop(_, _, _, _)
with_columns_loop(new_fields, exprs, input_schema, k) ==
    IF k > Len(exprs) THEN new_fields
    ELSE LET field == to_field(exprs[k], input_schema, Default).val
             idx == index_of(input_schema, field.name)
         IN  with_columns_loop(
                 IF idx.ok THEN [new_fields EXCEPT ![idx.val + 1] = field]
                 ELSE Append(new_fields, field),
                 exprs, input_schema, k + 1)

with_columns(self, exprs) ==
    LET input_schema == lp_schema(self)
        pp == prepare_projection(exprs, input_schema)
    IN  IF IsPanic(pp.schema) THEN pp.schema
        ELSE [node |-> "HStack",
              input |-> self,
              exprs |-> pp.exprs,
              schema |-> SchemaNew(with_columns_loop(input_schema.fields, pp.exprs,
                                                     input_schema, 1))]

\* A plausible slip: the node is built over the input's input.
filter_skips_input(self, predicate) ==
    [node |-> "Selection",
     predicate |-> predicate,
     input |-> IF "input" \in DOMAIN self THEN self.input ELSE self]

filter(self, predicate) ==
    LET rewritten == rewrite_projections(<<predicate>>, lp_schema(self), <<>>)
    IN  [node |-> "Selection",
         predicate |-> IF has_wildcard(predicate)
                       THEN combine_predicates_expr(rewritten, 2, rewritten[1])
                       ELSE predicate,
         input |-> self]

\* A plausible slip: the two schemas are merged in the other order.
groupby_aggs_first(self, keys, aggs, apply, maintain_order, dynamic_options, rolling_options) ==
    LET current_schema == lp_schema(self)
        rewritten == rewrite_projections(aggs, current_schema, keys)
        schema1 == expressions_to_schema(keys, current_schema, Default)
        schema2 == expressions_to_schema(rewritten, current_schema, Aggregation)
    IN  IF IsPanic(schema1) THEN schema1
        ELSE IF IsPanic(schema2) THEN schema2
        ELSE [node |-> "Aggregate", input |-> self, keys |-> keys, aggs |-> rewritten,
              schema |-> try_merge(<<schema2, schema1>>).val,
              apply |-> apply, maintain_order |-> maintain_order,
              options |-> [dynamic |-> dynamic_options, rolling |-> rolling_options]]

groupby(self, keys, aggs, apply, maintain_order, dynamic_options, rolling_options) ==
    LET current_schema == lp_schema(self)
        rewritten == rewrite_projections(aggs, current_schema, keys)
        schema1 == expressions_to_schema(keys, current_schema, Default)
        schema2 == expressions_to_schema(rewritten, current_schema, Aggregation)
    IN  IF IsPanic(schema1) THEN schema1
        ELSE IF IsPanic(schema2) THEN schema2
        ELSE [node |-> "Aggregate", input |-> self, keys |-> keys, aggs |-> rewritten,
              schema |-> try_merge(<<schema1, schema2>>).val,
              apply |-> apply, maintain_order |-> maintain_order,
              options |-> [dynamic |-> dynamic_options, rolling |-> rolling_options]]

melt(self, id_vars, value_vars) ==
    LET melt_schema == det_melt_schema(value_vars, lp_schema(self))
    IN  IF IsPanic(melt_schema) THEN melt_schema
        ELSE [node |-> "Melt", input |-> self, id_vars |-> id_vars,
              value_vars |-> value_vars, schema |-> melt_schema]

\* The names of the column expressions of exprs, in order.
RECURSIVE column_names(_, _)
column_names(exprs, k) ==
    IF k > Len(exprs) THEN <<>>
    ELSE <<exprs[k].name>> \o column_names(exprs, k + 1)

\* A plausible slip: an argument that is not a column is left out of the
\* node instead of being refused.
explode_skips_non_columns(self, columns) ==
    LET rewritten == rewrite_projections(columns, lp_schema(self), <<>>)
        kept == SelectSeq(rewritten, LAMBDA e : e.expr = "Column")
    IN  [node |-> "Explode", input |-> self, columns |-> column_names(kept, 1)]

explode(self, columns) ==
    LET rewritten == rewrite_projections(columns, lp_schema(self), <<>>)
    IN  IF \E k \in 1..Len(rewritten) : rewritten[k].expr # "Column"
        THEN Panic("expected column expression")
        ELSE [node |-> "Explode", input |-> self, columns |-> column_names(rewritten, 1)]


\* The loop of join over the right schema's fields.
RECURSIVE join_right_fields(_, _, _, _, _)
join_right_fields(fields_right, names, right_names, suffix, k) ==
    IF k > Len(fields_right) THEN <<>>
    ELSE LET f == fields_right[k]
             rest == join_right_fields(fields_right, names, right_names, suffix, k + 1)
         IN  IF ~\E s \in right_names : s = f.name
             THEN IF f.name \in names
                  THEN <<FieldNew(f.name \o suffix, f.data_type)>> \o rest
                  ELSE <<f>> \o rest
             ELSE rest

\* A plausible slip: the right keys are identified by position, the first
\* Len(right_on) fields of the right schema being taken for the keys.
join_keys_by_position(self, other, left_on, right_on, options) ==
    LET schema_left == lp_schema(self)
        schema_right == lp_schema(other)
        names == { schema_left.fields[k].name : k \in 1..Len(schema_left.fields) }
        right_names == { schema_right.fields[k].name :
                            k \in 1..(IF Len(right_on) < Len(schema_right.fields)
                                      THEN Len(right_on) ELSE Len(schema_right.fields)) }
    IN  [node |-> "Join", input_left |-> self, input_right |-> other,
         schema |-> SchemaNew(schema_left.fields \o
                        join_right_fields(schema_right.fields, names, right_names,
                                          options.suffix, 1)),
         left_on |-> left_on, right_on |-> right_on, options |-> options]

join(self, other, left_on, right_on, options) ==
    LET schema_left == lp_schema(self)
        schema_right == lp_schema(other)
        names == { schema_left.fields[k].name : k \in 1..Len(schema_left.fields) }
        output_names == [k \in 1..Len(right_on) |-> expr_output_name(right_on[k])]
        right_names == { output_names[k].val : k \in 1..Len(right_on) }
    IN  IF \E k \in 1..Len(right_on) : ~output_names[k].ok
        THEN Panic("could not find name")
        ELSE [node |-> "Join", input_left |-> self, input_right |-> other,
              schema |-> SchemaNew(schema_left.fields \o
                             join_right_fields(schema_right.fields, names, right_names,
                                               options.suffix, 1)),
              left_on |-> left_on, right_on |-> right_on, options |-> options]


\* A plausible slip: a plan that is cached already is returned as it is.
cache_once(self) ==
    IF self.node = "Cache" THEN self ELSE [node |-> "Cache", input |-> self]

cache(self) == [node |-> "Cache", input |-> self]

sort(self, by_column, reverse) ==
    [node |-> "Sort", input |-> self, by_column |-> by_column, reverse |-> reverse]

distinct(self, options) == [node |-> "Distinct", input |-> self, options |-> options]

slice(self, offset, len) ==
    [node |-> "Slice", input |-> self, offset |-> offset, len |-> len]

(***************************************************************************)
(* The builder as a state machine: one action per builder method.          *)
(***************************************************************************)
Frame(fields) == DataFrameNewNoChecks(fields)

InitFrames ==
    { Frame(<<FieldNew("a", Int32), FieldNew("b", Utf8)>>),
      Frame(<<FieldNew("a", Int32), FieldNew("b", Int32), FieldNew("c", Utf8)>>) }

OtherFrames ==
    { Frame(<<FieldNew("a", Int32), FieldNew("c", Utf8)>>),
      Frame(<<FieldNew("b", Int32), FieldNew("c", Utf8)>>),
      Frame(<<FieldNew("a", Int32), FieldNew("b", Int32)>>) }

JoinKeys == { <<col("a")>>, <<col("b")>>, <<alias(col("a"), "c"), col("b")>> }

Suffixes == {"_right"}

MeltIdVars == { <<>>, <<"b">> }

MeltValueVars == { <<>>, <<"a">>, <<"a", "b">>, <<"b", "a">>, <<"c">> }

WithColumnsExprs ==
    { <<cast(col("a"), Utf8)>>,
      <<alias(col("a"), "x")>>,
      <<alias(col("a"), "x"), alias(col("b"), "x")>>,
      <<alias(col("b"), "a"), alias(col("a"), "y")>>,
      <<cast(Wildcard, Boolean)>> }

ProjectExprs ==
    { <<>>, <<Wildcard>>, <<col("a")>>, <<col("b"), alias(col("a"), "x")>>, <<col("c")>> }

FilterPredicates ==
    { is_not_null(col("a")), is_not_null(Wildcard),
      and(is_not_null(col("b")), is_not_null(Wildcard)) }

GroupbyKeys == { <<col("a")>>, <<col("b"), col("a")>> }

GroupbyAggs ==
    { <<sum(col("a"))>>, <<sum(Wildcard)>>,
      <<alias(sum(col("a")), "x"), sum(col("b")), alias(col("b"), "x")>> }

ExplodeColumns ==
    { <<col("a")>>, <<Wildcard>>, <<col("b"), alias(col("a"), "x")>>,
      <<cast(col("a"), Utf8)>> }


SortColumns == { <<col("a")>>, <<col("b"), col("a")>> }

DistinctOptions ==
    { [subset |-> None, maintain_order |-> TRUE, keep_strategy |-> "First"] }

SliceWindows == { [offset |-> 0, len |-> 1], [offset |-> -1, len |-> 2] }

MapSchemas == { None, Some(SchemaNew(<<FieldNew("x", Int64)>>)) }

UserFn == [returns |-> "user"]

\* The number of builder calls that made the plan.
RECURSIVE Calls(_)
Calls(plan) ==
    CASE plan.node = "DataFrameScan" -> 0
      [] plan.node = "Join" -> 1 + Calls(plan.input_left)
      [] OTHER -> 1 + Calls(plan.input)

CanCall == status = "ok" /\ Calls(lp) < MaxCalls

\* The builder after a call that returned r: the new plan, or nothing when
\* the call trapped.
Returned(c, r) ==
    /\ UNCHANGED fnVars
    /\ prev' = lp
    /\ call' = c
    /\ IF IsPanic(r)
       THEN lp' = Moved /\ status' = "panicked"
       ELSE lp' = r /\ status' = "ok"

NoBuilderCall == [method |-> "from_existing_df"]

InitBuilder ==
    /\ lp \in { from_existing_df(df) : df \in InitFrames }
    /\ prev = Moved
    /\ call = NoBuilderCall
    /\ status = "ok"

Project ==
    /\ CanCall
    /\ \E exprs \in ProjectExprs :
          Returned([method |-> "project", exprs |-> exprs], project(lp, exprs))

WithColumns ==
    /\ CanCall
    /\ \E exprs \in WithColumnsExprs :
          Returned([method |-> "with_columns", exprs |-> exprs], with_columns(lp, exprs))

\* The conjunction of no predicates is left undefined by the description of
\* combine_predicates_expr: a wildcard predicate is applied to plans with at
\* least one column only.
Filter ==
    /\ CanCall
    /\ \E predicate \in FilterPredicates :
          /\ has_wildcard(predicate) => Len(lp_schema(lp).fields) > 0
          /\ Returned([method |-> "filter", predicate |-> predicate],
                      filter(lp, predicate))

Groupby ==
    /\ CanCall
    /\ \E keys \in GroupbyKeys, aggs \in GroupbyAggs, maintain_order \in BOOLEAN :
          Returned([method |-> "groupby", keys |-> keys, aggs |-> aggs],
                   groupby(lp, keys, aggs, None, maintain_order, None, None))

Melt ==
    /\ CanCall
    /\ \E id_vars \in MeltIdVars, value_vars \in MeltValueVars :
          Returned([method |-> "melt", id_vars |-> id_vars, value_vars |-> value_vars],
                   melt(lp, id_vars, value_vars))

Join ==
    /\ CanCall
    /\ \E df \in OtherFrames, right_on \in JoinKeys, suffix \in Suffixes :
          LET other == from_existing_df(df)
              options == [suffix |-> suffix]
          IN  Returned([method |-> "join", other |-> other, left_on |-> right_on,
                        right_on |-> right_on, options |-> options],
                       join(lp, other, right_on, right_on, options))

Map ==
    /\ CanCall
    /\ \E schema_opt \in MapSchemas :
          Returned([method |-> "map", schema |-> schema_opt],
                   map(lp, UserFn, AllowedOptimizationsDefault, schema_opt, "map"))

Explode ==
    /\ CanCall
    /\ \E columns \in ExplodeColumns :
          Returned([method |-> "explode", columns |-> columns], explode(lp, columns))

Cache ==
    /\ CanCall
    /\ Returned([method |-> "cache"], cache(lp))

Sort ==
    /\ CanCall
    /\ \E by_column \in SortColumns :
          LET reverse == [k \in 1..Len(by_column) |-> FALSE]
          IN  Returned([method |-> "sort", by_column |-> by_column, reverse |-> reverse],
                       sort(lp, by_column, reverse))

Distinct ==
    /\ CanCall
    /\ \E options \in DistinctOptions :
          Returned([method |-> "distinct", options |-> options], distinct(lp, options))

Slice ==
    /\ CanCall
    /\ \E window \in SliceWindows :
          Returned([method |-> "slice", offset |-> window.offset, len |-> window.len],
                   slice(lp, window.offset, window.len))

(***************************************************************************)
(* scan_csv.  A file is the sequence of its bytes; an open file is a       *)
(* handle holding the bytes, the read position and the log of the          *)
(* operations made on it.                                                  *)
(***************************************************************************)
MaxFileLen == 3

Bytes == {31, 139, 120, 156, 44, 97}

Delimiters == {44}

ComputeError(msg) == [error |-> "ComputeError", msg |-> msg]

IoError(kind) == [error |-> "Io", kind |-> kind]

\* std::fs::File::open on a path that holds content (Some) or nothing (None).
file_open(content) ==
    IF content.some
    THEN Ok([bytes |-> content.val, pos |-> 0, log |-> <<>>])
    ELSE Err(IoError("NotFound"))

\* Read::read_exact: n bytes from the position, or an error when fewer remain.
read_exact(file, n) ==
    IF Len(file.bytes) - file.pos < n
    THEN [ok |-> FALSE, err |-> IoError("UnexpectedEof"),
          file |-> [file EXCEPT !.pos = Len(file.bytes),
                                !.log = @ \o <<[io |-> "read", from |-> file.pos,
                                                to |-> Len(file.bytes)]>>]]
    ELSE [ok |-> TRUE, val |-> SubSeq(file.bytes, file.pos + 1, file.pos + n),
          file |-> [file EXCEPT !.pos = @ + n,
                                !.log = @ \o <<[io |-> "read", from |-> file.pos,
                                                to |-> file.pos + n]>>]]

\* Seek::seek(SeekFrom::Start(k)).
seek_start(file, k) ==
    [file EXCEPT !.pos = k, !.log = @ \o <<[io |-> "seek", to |-> k]>>]

\* The magic numbers of gzip and zlib.
is_compressed(magic_nr) ==
    \/ magic_nr = <<31, 139>>
    \/ magic_nr = <<120, 1>>
    \/ magic_nr = <<120, 156>>
    \/ magic_nr = <<120, 218>>

\* The bytes the reader yields from its position to its end.
get_reader_bytes(file) ==
    [val |-> SubSeq(file.bytes, file.pos + 1, Len(file.bytes)),
     file |-> [file EXCEPT !.pos = Len(file.bytes),
                           !.log = @ \o <<[io |-> "read", from |-> file.pos,
                                           to |-> Len(file.bytes)]>>]]

\* The name of the k-th column of a file without header.
column_name(k) == CASE k = 1 -> "column_1" [] k = 2 -> "column_2"
                    [] k = 3 -> "column_3" [] k = 4 -> "column_4"
                    [] k = 5 -> "column_5" [] OTHER -> "column_n"

\* Schema inference over the sampled bytes: one Utf8 column per cell of the
\* first row.
infer_file_schema(reader_bytes, delimiter) ==
    LET cells == 1 + Len(SelectSeq(reader_bytes, LAMBDA b : b = delimiter))
    IN  SchemaNew([k \in 1..cells |-> FieldNew(column_name(k), Utf8)])

CsvScan(schema_given, reader_bytes, delimiter, skip_rows, skip_rows_after_header) ==
    [node |-> "CsvScan",
     schema |-> IF schema_given.some THEN schema_given.val
                ELSE infer_file_schema(reader_bytes, delimiter),
     options |-> [delimiter |-> delimiter,
                  skip_rows |-> skip_rows + skip_rows_after_header,
                  with_columns |-> None],
     predicate |-> None,
     aggregate |-> <<>>]

\* A plausible slip: the magic number is read but not acted upon.
scan_csv_ignores_magic(content, delimiter, skip_rows, schema_given, skip_rows_after_header) ==
    LET opened == file_open(content)
    IN  IF ~opened.ok THEN [result |-> Err(opened.err), inference |-> None]
        ELSE
        LET magic == read_exact(opened.val, 2)
        IN  IF ~magic.ok
            THEN [result |-> Err(magic.err), file |-> magic.file, inference |-> None]
            ELSE
            LET reader == get_reader_bytes(seek_start(magic.file, 0))
            IN  [result |-> Ok(CsvScan(schema_given, reader.val, delimiter,
                                       skip_rows, skip_rows_after_header)),
                 file |-> reader.file,
                 inference |-> IF schema_given.some THEN None ELSE Some(reader.val)]

\* The outcome of scan_csv: the result returned, the file handle as the call
\* left it, and the bytes schema inference ran over, if it ran.
scan_csv(content, delimiter, skip_rows, schema_given, skip_rows_after_header) ==
    LET opened == file_open(content)
    IN  IF ~opened.ok THEN [result |-> Err(opened.err), inference |-> None]
        ELSE
        LET magic == read_exact(opened.val, 2)
        IN  IF ~magic.ok
            THEN [result |-> Err(magic.err), file |-> magic.file, inference |-> None]
            ELSE IF is_compressed(magic.val)
            THEN [result |-> Err(ComputeError(
                     "cannot scan compressed csv; use read_csv for compressed data")),
                  file |-> magic.file, inference |-> None]
            ELSE
            LET reader == get_reader_bytes(seek_start(magic.file, 0))
            IN  [result |-> Ok(CsvScan(schema_given, reader.val, delimiter,
                                       skip_rows, skip_rows_after_header)),
                 file |-> reader.file,
                 inference |-> IF schema_given.some THEN None ELSE Some(reader.val)]

Files == { None } \cup { Some(bytes) : bytes \in SeqsUpTo(Bytes, MaxFileLen) }

GivenSchemas == { None, Some(SchemaNew(<<FieldNew("a", Int32)>>)) }

ScanCsv ==
    /\ op = NoCall
    /\ UNCHANGED builderVars
    /\ \E content \in Files, delimiter \in Delimiters, schema_given \in GivenSchemas :
        /\ op' = [fn |-> "scan_csv", content |-> content, delimiter |-> delimiter,
                  schema |-> schema_given]
        /\ ret' = scan_csv(content, delimiter, 0, schema_given, 1)
        /\ UNCHANGED <<schema, obj>>

(***************************************************************************)
(* AnyValue: one value of any data type.  A value is a record that holds   *)
(* its variant in av and its payload in the remaining fields.              *)
(***************************************************************************)
AnyValue(variant, v) == [av |-> variant, v |-> v]

AnyValueNull == [av |-> "Null"]

AnyValueDatetime(v, tu, tz) == [av |-> "Datetime", v |-> v, tu |-> tu, tz |-> tz]

AnyValueDuration(v, tu) == [av |-> "Duration", v |-> v, tu |-> tu]

AnyValueCategorical(idx, rev_map) == [av |-> "Categorical", idx |-> idx, rev_map |-> rev_map]

\* RevMapping::Global carries the id of the global string cache it was built
\* in; RevMapping::Local is compared by the address of its array.
RevMappingGlobal(id) == [rev |-> "Global", id |-> id]

RevMappingLocal(ptr) == [rev |-> "Local", ptr |-> ptr]

\* A float is a number or not a number.
NaN == [nan |-> TRUE]

Float(x) == [nan |-> FALSE, x |-> x]

\* The limits of i32.
Int32Max == 2147483647

Int32Min == (-Int32Max) - 1

\* The value returned by a call that can trap instead.
Value(v) == [value |-> v]

Less == "Less"

Equal == "Equal"

Greater == "Greater"

\* l + r on i32.  A sum out of range traps in a build with overflow checks
\* and wraps around in a build without.
i32_add(l, r, overflow_checks) ==
    IF r > 0 /\ l > Int32Max - r
    THEN IF overflow_checks THEN Panic("attempt to add with overflow")
         ELSE AnyValue("Int32", ((l - Int32Max) - 1) + ((r - Int32Max) - 1))
    ELSE IF r < 0 /\ l < Int32Min - r
    THEN IF overflow_checks THEN Panic("attempt to add with overflow")
         ELSE AnyValue("Int32", ((l + Int32Max) + 1) + ((r + Int32Max) + 1))
    ELSE AnyValue("Int32", l + r)

\* l + r on floats.
f_add(l, r) == IF l.nan \/ r.nan THEN NaN ELSE Float(l.x + r.x)

\* l == r on floats.
f_eq(l, r) == ~l.nan /\ ~r.nan /\ l.x = r.x

\* l.partial_cmp(r) on integers.
i_partial_cmp(l, r) ==
    IF l < r THEN Some(Less) ELSE IF l = r THEN Some(Equal) ELSE Some(Greater)

\* l.partial_cmp(r) on floats.
f_partial_cmp(l, r) == IF l.nan \/ r.nan THEN None ELSE i_partial_cmp(l.x, r.x)

\* A plausible slip: a 64-bit integer is taken for a date as well.
into_date_any_width(self) ==
    CASE self.av \in {"Int32", "Int64"} -> AnyValue("Date", self.v)
      [] self.av = "Null" -> AnyValueNull
      [] OTHER -> Panic("cannot create date from other type")

into_date(self) ==
    CASE self.av = "Int32" -> AnyValue("Date", self.v)
      [] self.av = "Null" -> AnyValueNull
      [] OTHER -> Panic("cannot create date from other type")

into_datetime(self, tu, tz) ==
    CASE self.av = "Int64" -> AnyValueDatetime(self.v, tu, tz)
      [] self.av = "Null" -> AnyValueNull
      [] OTHER -> Panic("cannot create date from other type")

into_duration(self, tu) ==
    CASE self.av = "Int64" -> AnyValueDuration(self.v, tu)
      [] self.av = "Null" -> AnyValueNull
      [] OTHER -> Panic("cannot create date from other type")

into_time(self) ==
    CASE self.av = "Int64" -> AnyValue("Time", self.v)
      [] self.av = "Null" -> AnyValueNull
      [] OTHER -> Panic("cannot create date from other type")

\* A plausible slip: Null on the right is not looked for.
add_null_left_only(self, rhs, overflow_checks) ==
    CASE self.av = "Null" -> AnyValueNull
      [] self.av = "Int32" /\ rhs.av = "Int32" -> i32_add(self.v, rhs.v, overflow_checks)
      [] self.av \in {"Int64", "UInt32", "UInt64"} /\ rhs.av = self.av ->
            AnyValue(self.av, self.v + rhs.v)
      [] self.av \in {"Float32", "Float64"} /\ rhs.av = self.av ->
            AnyValue(self.av, f_add(self.v, rhs.v))
      [] OTHER -> Panic("not yet implemented")

\* The payloads of Int64, UInt32 and UInt64 in the model stay far from the
\* limits of their types: their sums are in range.
add(self, rhs, overflow_checks) ==
    CASE self.av = "Null" -> AnyValueNull
      [] self.av # "Null" /\ rhs.av = "Null" -> AnyValueNull
      [] self.av = "Int32" /\ rhs.av = "Int32" -> i32_add(self.v, rhs.v, overflow_checks)
      [] self.av = "Int64" /\ rhs.av = "Int64" -> AnyValue("Int64", self.v + rhs.v)
      [] self.av = "UInt32" /\ rhs.av = "UInt32" -> AnyValue("UInt32", self.v + rhs.v)
      [] self.av = "UInt64" /\ rhs.av = "UInt64" -> AnyValue("UInt64", self.v + rhs.v)
      [] self.av = "Float32" /\ rhs.av = "Float32" -> AnyValue("Float32", f_add(self.v, rhs.v))
      [] self.av = "Float64" /\ rhs.av = "Float64" -> AnyValue("Float64", f_add(self.v, rhs.v))
      [] OTHER -> Panic("not yet implemented")

\* A plausible slip: every value is taken for static.
to_static_always(self) == Ok(self)

to_static(self) ==
    CASE self.av \in {"Null", "Int8", "Int16", "Int32", "Int64",
                      "UInt8", "UInt16", "UInt32", "UInt64",
                      "Boolean", "Float32", "Float64", "Date", "Time", "List"} -> Ok(self)
      [] OTHER -> Err(ComputeError(<<"cannot get static AnyValue from ", self>>))

\* A plausible slip: two lists compare unequal instead of trapping.
eq_list_unequal(self, other) ==
    IF self.av # other.av THEN Value(FALSE)
    ELSE CASE self.av \in {"Utf8", "UInt8", "UInt16", "UInt32", "UInt64",
                           "Int8", "Int16", "Int32", "Int64",
                           "Time", "Date", "Boolean", "Datetime", "Duration",
                           "Categorical"} -> Value(self = other)
           [] self.av \in {"Float32", "Float64"} -> Value(f_eq(self.v, other.v))
           [] self.av = "Null" -> Value(TRUE)
           [] OTHER -> Value(FALSE)

eq(self, other) ==
    IF self.av # other.av THEN Value(FALSE)
    ELSE CASE self.av \in {"Utf8", "UInt8", "UInt16", "UInt32", "UInt64",
                           "Int8", "Int16", "Int32", "Int64",
                           "Time", "Date", "Boolean"} -> Value(self.v = other.v)
           [] self.av \in {"Float32", "Float64"} -> Value(f_eq(self.v, other.v))
           [] self.av = "Datetime" ->
                 Value(self.v = other.v /\ self.tu = other.tu /\ self.tz = other.tz)
           [] self.av = "List" -> Panic("eq between list series not supported")
           [] self.av = "Object" -> Panic("eq between object not supported")
           [] self.av = "Null" -> Value(TRUE)
           [] self.av = "Categorical" ->
                 IF self.rev_map.rev = "Global" /\ other.rev_map.rev = "Global"
                 THEN Value(self.rev_map.id = other.rev_map.id /\ self.idx = other.idx)
                 ELSE IF self.rev_map.rev = "Local" /\ other.rev_map.rev = "Local"
                 THEN Value(self.rev_map.ptr = other.rev_map.ptr /\ self.idx = other.idx)
                 ELSE Value(FALSE)
           [] self.av = "Duration" -> Value(self.v = other.v /\ self.tu = other.tu)
           [] OTHER -> Value(FALSE)

\* A plausible slip: integers of different variants are ordered by payload.
partial_cmp_across_variants(self, other) ==
    LET ints == {"UInt8", "UInt16", "UInt32", "UInt64", "Int8", "Int16", "Int32", "Int64"}
    IN  IF self.av \in ints /\ other.av \in ints THEN i_partial_cmp(self.v, other.v)
        ELSE IF self.av = other.av /\ self.av \in {"Float32", "Float64"}
        THEN f_partial_cmp(self.v, other.v)
        ELSE None

partial_cmp(self, other) ==
    IF self.av # other.av THEN None
    ELSE CASE self.av \in {"UInt8", "UInt16", "UInt32", "UInt64",
                           "Int8", "Int16", "Int32", "Int64"} ->
                 i_partial_cmp(self.v, other.v)
           [] self.av \in {"Float32", "Float64"} -> f_partial_cmp(self.v, other.v)
           [] OTHER -> None

\* The value at index i of a physical array of i32, a sequence of optional
\* values.
chunked_get_any_value(ca, i) ==
    IF ca[i + 1].some THEN AnyValue("Int32", ca[i + 1].val) ELSE AnyValueNull

\* DateChunked::get_any_value.
get_any_value(self, i) == into_date(chunked_get_any_value(self, i))

Series(values) == [series |-> values]

ObjectRef(ptr) == [object |-> ptr]

RevMappings == { RevMappingGlobal(1), RevMappingGlobal(2), RevMappingLocal(1), RevMappingLocal(2) }

Variants ==
    {"Null", "Boolean", "Utf8", "UInt8", "UInt16", "UInt32", "UInt64",
     "Int8", "Int16", "Int32", "Int64", "Float32", "Float64",
     "Date", "Datetime", "Duration", "Time", "Categorical", "List", "Object"}

\* The values of one variant.
AnyValues(variant) ==
    CASE variant = "Null" -> {AnyValueNull}
      [] variant = "Boolean" -> { AnyValue("Boolean", v) : v \in BOOLEAN }
      [] variant = "Utf8" -> { AnyValue("Utf8", v) : v \in {"x", "y"} }
      [] variant = "UInt8" -> { AnyValue("UInt8", v) : v \in {0, 3} }
      [] variant = "UInt16" -> { AnyValue("UInt16", v) : v \in {3, 4} }
      [] variant = "UInt32" -> { AnyValue("UInt32", v) : v \in {0, 3, 4} }
      [] variant = "UInt64" -> { AnyValue("UInt64", v) : v \in {0, 3} }
      [] variant = "Int8" -> { AnyValue("Int8", v) : v \in {-1, 3} }
      [] variant = "Int16" -> { AnyValue("Int16", v) : v \in {3, 4} }
      [] variant = "Int32" ->
            { AnyValue("Int32", v) : v \in {Int32Min, -1, 3, 4, Int32Max} }
      [] variant = "Int64" -> { AnyValue("Int64", v) : v \in {-1, 3, 4} }
      [] variant = "Float32" -> { AnyValue("Float32", v) : v \in {NaN, Float(0), Float(1)} }
      [] variant = "Float64" -> { AnyValue("Float64", v) : v \in {NaN, Float(1), Float(2)} }
      [] variant = "Date" -> { AnyValue("Date", v) : v \in {0, 3} }
      [] variant = "Time" -> { AnyValue("Time", v) : v \in {3, 4} }
      [] variant = "Datetime" ->
            { AnyValueDatetime(v, tu, tz) : v \in {3, 4}, tu \in TimeUnit, tz \in TimeZones }
      [] variant = "Duration" -> { AnyValueDuration(v, tu) : v \in {3, 4}, tu \in TimeUnit }
      [] variant = "Categorical" ->
            { AnyValueCategorical(idx, rev_map) : idx \in {0, 1}, rev_map \in RevMappings }
      [] variant = "List" -> { AnyValue("List", Series(v)) : v \in {<<>>, <<1, 2>>} }
      [] variant = "Object" -> { AnyValue("Object", ObjectRef(v)) : v \in {1, 2} }

DateChunkeds == { <<Some(3)>>, <<None, Some(4)>> }

Add ==
    /\ op = NoCall
    /\ UNCHANGED builderVars
    /\ \E sv \in Variants, rv \in Variants, overflow_checks \in BOOLEAN :
      \E self \in AnyValues(sv), rhs \in AnyValues(rv) :
        /\ op' = [fn |-> "add", self |-> self, rhs |-> rhs,
                  overflow_checks |-> overflow_checks]
        /\ ret' = add(self, rhs, overflow_checks)
        /\ UNCHANGED <<schema, obj>>

ToStatic ==
    /\ op = NoCall
    /\ UNCHANGED builderVars
    /\ \E sv \in Variants :
      \E self \in AnyValues(sv) :
        /\ op' = [fn |-> "to_static", self |-> self]
        /\ ret' = to_static(self)
        /\ UNCHANGED <<schema, obj>>

Eq ==
    /\ op = NoCall
    /\ UNCHANGED builderVars
    /\ \E sv \in Variants, ov \in Variants :
      \E self \in AnyValues(sv), other \in AnyValues(ov) :
        /\ op' = [fn |-> "eq", self |-> self, other |-> other]
        /\ ret' = eq(self, other)
        /\ UNCHANGED <<schema, obj>>

PartialCmp ==
    /\ op = NoCall
    /\ UNCHANGED builderVars
    /\ \E sv \in Variants, ov \in Variants :
      \E self \in AnyValues(sv), other \in AnyValues(ov) :
        /\ op' = [fn |-> "partial_cmp", self |-> self, other |-> other]
        /\ ret' = partial_cmp(self, other)
        /\ UNCHANGED <<schema, obj>>

IntoDate ==
    /\ op = NoCall
    /\ UNCHANGED builderVars
    /\ \E sv \in Variants :
      \E self \in AnyValues(sv) :
        /\ op' = [fn |-> "into_date", self |-> self]
        /\ ret' = into_date(self)
        /\ UNCHANGED <<schema, obj>>

IntoDatetime ==
    /\ op = NoCall
    /\ UNCHANGED builderVars
    /\ \E sv \in Variants, tu \in TimeUnit, tz \in TimeZones :
      \E self \in AnyValues(sv) :
        /\ op' = [fn |-> "into_datetime", self |-> self, tu |-> tu, tz |-> tz]
        /\ ret' = into_datetime(self, tu, tz)
        /\ UNCHANGED <<schema, obj>>

IntoDuration ==
    /\ op = NoCall
    /\ UNCHANGED builderVars
    /\ \E sv \in Variants, tu \in TimeUnit :
      \E self \in AnyValues(sv) :
        /\ op' = [fn |-> "into_duration", self |-> self, tu |-> tu]
        /\ ret' = into_duration(self, tu)
        /\ UNCHANGED <<schema, obj>>

IntoTime ==
    /\ op = NoCall
    /\ UNCHANGED builderVars
    /\ \E sv \in Variants :
      \E self \in AnyValues(sv) :
        /\ op' = [fn |-> "into_time", self |-> self]
        /\ ret' = into_time(self)
        /\ UNCHANGED <<schema, obj>>

GetAnyValue ==
    /\ op = NoCall
    /\ UNCHANGED builderVars
    /\ \E self \in DateChunkeds :
        \E i \in 0..(Len(self) - 1) :
            /\ op' = [fn |-> "get_any_value", self |-> self, i |-> i]
            /\ ret' = get_any_value(self, i)
            /\ UNCHANGED <<schema, obj>>

(***************************************************************************)
(* Arrow interop.  An Arrow data type is a tuple of the variant's name and *)
(* its payload; an Arrow field is a record; an Arrow schema is the         *)
(* sequence of its fields.  A conversion that can trap returns Value of    *)
(* its result, or the trap.                                                *)
(***************************************************************************)
ArrowTimeUnit == {"Second", "Millisecond", "Microsecond", "Nanosecond"}

ArrowNull == <<"Null">>
ArrowBoolean == <<"Boolean">>
ArrowUInt8 == <<"UInt8">>
ArrowUInt16 == <<"UInt16">>
ArrowUInt32 == <<"UInt32">>
ArrowUInt64 == <<"UInt64">>
ArrowInt8 == <<"Int8">>
ArrowInt16 == <<"Int16">>
ArrowInt32 == <<"Int32">>
ArrowInt64 == <<"Int64">>
ArrowFloat16 == <<"Float16">>
ArrowFloat32 == <<"Float32">>
ArrowFloat64 == <<"Float64">>
ArrowUtf8 == <<"Utf8">>
ArrowLargeUtf8 == <<"LargeUtf8">>
ArrowBinary == <<"Binary">>
ArrowDate32 == <<"Date32">>
ArrowDate64 == <<"Date64">>
ArrowTimestamp(tu, tz) == <<"Timestamp", tu, tz>>
ArrowDuration(tu) == <<"Duration", tu>>
ArrowTime32(tu) == <<"Time32", tu>>
ArrowTime64(tu) == <<"Time64", tu>>
ArrowList(f) == <<"List", f>>
ArrowLargeList(f) == <<"LargeList", f>>
ArrowDictionary(key, value, sorted) == <<"Dictionary", key, value, sorted>>
ArrowExtension(name, inner) == <<"Extension", name, inner>>

ArrowFieldNew(name, data_type, nullable) ==
    [name |-> name, data_type |-> data_type, nullable |-> nullable]

ArrowSchemaFrom(fields) == [fields |-> fields]

\* A plausible slip: the units that are cast are rounded to the coarser unit.
time_unit_from_coarser(tu) ==
    CASE tu = "Millisecond" -> "Milliseconds"
      [] tu = "Nanosecond" -> "Nanoseconds"
      [] tu = "Microsecond" -> "Milliseconds"
      [] tu = "Second" -> "Milliseconds"

\* From<&ArrowTimeUnit> for TimeUnit.
time_unit_from(tu) ==
    CASE tu = "Millisecond" -> "Milliseconds"
      [] tu = "Nanosecond" -> "Nanoseconds"
      [] tu = "Microsecond" -> "Nanoseconds"
      [] tu = "Second" -> "Milliseconds"

\* TimeUnit::to_arrow.
time_unit_to_arrow(self) ==
    CASE self = "Nanoseconds" -> "Nanosecond"
      [] self = "Milliseconds" -> "Millisecond"

\* DataType::to_arrow.
RECURSIVE data_type_to_arrow(_)
data_type_to_arrow(self) ==
    CASE self[1] = "Boolean" -> Value(ArrowBoolean)
      [] self[1] = "UInt8" -> Value(ArrowUInt8)
      [] self[1] = "UInt16" -> Value(ArrowUInt16)
      [] self[1] = "UInt32" -> Value(ArrowUInt32)
      [] self[1] = "UInt64" -> Value(ArrowUInt64)
      [] self[1] = "Int8" -> Value(ArrowInt8)
      [] self[1] = "Int16" -> Value(ArrowInt16)
      [] self[1] = "Int32" -> Value(ArrowInt32)
      [] self[1] = "Int64" -> Value(ArrowInt64)
      [] self[1] = "Float32" -> Value(ArrowFloat32)
      [] self[1] = "Float64" -> Value(ArrowFloat64)
      [] self[1] = "Utf8" -> Value(ArrowLargeUtf8)
      [] self[1] = "Date" -> Value(ArrowDate32)
      [] self[1] = "Datetime" -> Value(ArrowTimestamp(time_unit_to_arrow(self[2]), self[3]))
      [] self[1] = "Duration" -> Value(ArrowDuration(time_unit_to_arrow(self[2])))
      [] self[1] = "Time" -> Value(ArrowTime64("Nanosecond"))
      [] self[1] = "List" ->
            LET inner == data_type_to_arrow(self[2])
            IN  IF IsPanic(inner) THEN inner
                ELSE Value(ArrowLargeList(ArrowFieldNew("", inner.value, TRUE)))
      [] self[1] = "Null" -> Value(ArrowNull)
      [] self[1] = "Object" -> Panic("cannot convert object to arrow")
      [] self[1] = "Categorical" -> Value(ArrowUInt32)
      [] self[1] = "Unknown" -> Panic("internal error: entered unreachable code")

\* Field::to_arrow.
field_to_arrow(self) ==
    LET data_type == data_type_to_arrow(self.data_type)
    IN  IF IsPanic(data_type) THEN data_type
        ELSE Value(ArrowFieldNew(self.name, data_type.value, TRUE))

\* The closure of Schema::to_arrow, applied to one field.
schema_field_to_arrow(f) ==
    CASE f.data_type[1] = "List" ->
            LET inner == data_type_to_arrow(f.data_type[2])
            IN  IF IsPanic(inner) THEN inner
                ELSE Value(ArrowFieldNew(f.name,
                        ArrowLargeList(ArrowFieldNew("item", inner.value, TRUE)), TRUE))
      [] f.data_type[1] = "Categorical" ->
            Value(ArrowFieldNew(f.name,
                    ArrowDictionary(ArrowUInt32, ArrowLargeUtf8, FALSE), TRUE))
      [] OTHER -> field_to_arrow(f)

\* The values of a sequence of results, or the first trap among them.
RECURSIVE collect(_, _)
collect(results, k) ==
    IF k > Len(results) THEN Value(<<>>)
    ELSE IF IsPanic(results[k]) THEN results[k]
    ELSE LET rest == collect(results, k + 1)
         IN  IF IsPanic(rest) THEN rest
             ELSE Value(<<results[k].value>> \o rest.value)

\* Schema::to_arrow.
schema_to_arrow(self) ==
    LET fields == collect([k \in 1..Len(self.fields) |->
                              schema_field_to_arrow(self.fields[k])], 1)
    IN  IF IsPanic(fields) THEN fields ELSE Value(ArrowSchemaFrom(fields.value))

\* From<&ArrowDataType> for DataType.
RECURSIVE data_type_from(_)
data_type_from(dt) ==
    CASE dt[1] = "Null" -> Value(Null)
      [] dt[1] = "UInt8" -> Value(UInt8)
      [] dt[1] = "UInt16" -> Value(UInt16)
      [] dt[1] = "UInt32" -> Value(UInt32)
      [] dt[1] = "UInt64" -> Value(UInt64)
      [] dt[1] = "Int8" -> Value(Int8)
      [] dt[1] = "Int16" -> Value(Int16)
      [] dt[1] = "Int32" -> Value(Int32)
      [] dt[1] = "Int64" -> Value(Int64)
      [] dt[1] = "Boolean" -> Value(Boolean)
      [] dt[1] = "Float32" -> Value(Float32)
      [] dt[1] = "Float64" -> Value(Float64)
      [] dt[1] \in {"LargeList", "List"} ->
            LET inner == data_type_from(dt[2].data_type)
            IN  IF IsPanic(inner) THEN inner ELSE Value(List(inner.value))
      [] dt[1] = "Date32" -> Value(Date)
      [] dt[1] = "Timestamp" -> Value(Datetime(time_unit_from(dt[2]), dt[3]))
      [] dt[1] = "Duration" -> Value(Duration(time_unit_from(dt[2])))
      [] dt[1] = "Date64" -> Value(Datetime("Milliseconds", None))
      [] dt[1] \in {"LargeUtf8", "Utf8"} -> Value(Utf8)
      [] dt[1] \in {"Time64", "Time32"} -> Value(Time)
      [] dt[1] = "Dictionary" -> Value(Categorical)
      [] dt[1] = "Extension" /\ dt[2] = "POLARS_EXTENSION_TYPE" -> Value(Object("extension"))
      [] OTHER -> Panic("Arrow datatype not supported by Polars")

\* From<&ArrowField> for Field.
field_from(f) ==
    LET data_type == data_type_from(f.data_type)
    IN  IF IsPanic(data_type) THEN data_type
        ELSE Value(FieldNew(f.name, data_type.value))

\* From<&ArrowSchema> for Schema.
schema_from(a_schema) ==
    LET fields == collect([k \in 1..Len(a_schema.fields) |->
                              field_from(a_schema.fields[k])], 1)
    IN  IF IsPanic(fields) THEN fields ELSE Value(SchemaNew(fields.value))

ArrowFlatDataTypes ==
    { ArrowNull, ArrowBoolean, ArrowUInt8, ArrowUInt16, ArrowUInt32, ArrowUInt64,
      ArrowInt8, ArrowInt16, ArrowInt32, ArrowInt64, ArrowFloat16, ArrowFloat32,
      ArrowFloat64, ArrowUtf8, ArrowLargeUtf8, ArrowBinary, ArrowDate32, ArrowDate64,
      ArrowExtension("POLARS_EXTENSION_TYPE", ArrowNull),
      ArrowExtension("other", ArrowNull) }
    \cup { ArrowTimestamp(tu, tz) : tu \in ArrowTimeUnit, tz \in TimeZones }
    \cup { ArrowDuration(tu) : tu \in ArrowTimeUnit }
    \cup { ArrowTime32(tu) : tu \in ArrowTimeUnit }
    \cup { ArrowTime64(tu) : tu \in ArrowTimeUnit }
    \cup { ArrowDictionary(key, value, sorted) :
              key \in {ArrowUInt32, ArrowInt8}, value \in {ArrowLargeUtf8, ArrowInt64},
              sorted \in BOOLEAN }

\* Every Arrow data type with lists nested up to the depth.
RECURSIVE ArrowDataTypesUpTo(_)
ArrowDataTypesUpTo(depth) ==
    IF depth = 0 THEN ArrowFlatDataTypes
    ELSE LET inner == ArrowDataTypesUpTo(depth - 1)
         IN  inner \cup { ArrowList(ArrowFieldNew("item", t, TRUE)) : t \in inner }
                   \cup { ArrowLargeList(ArrowFieldNew("item", t, TRUE)) : t \in inner }

ArrowDataTypes == ArrowDataTypesUpTo(MaxListDepth)

\* Schemas of one field of every data type, and of two fields of a few.
RoundTripSchemas ==
    { SchemaNew(<<>>) }
    \cup { SchemaNew(<<FieldNew("a", t)>>) : t \in DataTypes }
    \cup { SchemaNew(<<FieldNew(n, t), FieldNew("a", u)>>) :
              n \in {"a", "b"}, t \in {Int32, Categorical, List(Utf8)},
              u \in {Utf8, List(Categorical)} }

FromArrow ==
    /\ op = NoCall
    /\ UNCHANGED builderVars
    /\ \E dt \in ArrowDataTypes :
        /\ op' = [fn |-> "data_type_from", dt |-> dt]
        /\ ret' = data_type_from(dt)
        /\ UNCHANGED <<schema, obj>>

\* Schema::from(&s.to_arrow()).
RoundTrip ==
    /\ op = NoCall
    /\ UNCHANGED builderVars
    /\ \E s \in RoundTripSchemas :
        LET a_schema == schema_to_arrow(s)
        IN  /\ op' = [fn |-> "round_trip", self |-> s, arrow |-> a_schema]
            /\ ret' = IF IsPanic(a_schema) THEN a_schema ELSE schema_from(a_schema.value)
            /\ UNCHANGED <<schema, obj>>

(***************************************************************************)
(* read_parquet.  A row group is a record of its number of rows and of     *)
(* what its statistics give: stats is "none" when the file holds no        *)
(* statistics for it, "error" when they cannot be collected, and "some"    *)
(* otherwise, and should_read is then the answer of the predicate's        *)
(* statistics evaluator.  A frame is a record of its height.               *)
(***************************************************************************)
MaxRowGroups == 3

NotFoundError(name) == [error |-> "NotFound", name |-> name]

Min(a, b) == IF a < b THEN a ELSE b

\* The chunk the column decoder yields first: at most num_rows rows of a row
\* group of chunk_size rows.
to_deserializer_next(num_rows, chunk_size) == Min(num_rows, chunk_size)

\* collect_statistics(md.columns(), schema).
collect_statistics(md) ==
    CASE md.stats = "error" -> Err(ComputeError("cannot collect statistics"))
      [] md.stats = "none" -> Ok(None)
      [] md.stats = "some" -> Ok(Some(md))

\* apply_predicate: the rows of the frame the predicate selects.
apply_predicate(df, predicate) ==
    IF predicate.some /\ predicate.val.selects = "none"
    THEN [height |-> 0]
    ELSE df

\* A plausible slip: every error of should_read ends the scan.
row_group_decision_strict(md, predicate) ==
    IF predicate.some /\ predicate.val.stats_evaluator
    THEN LET stats == collect_statistics(md)
         IN  IF ~stats.ok THEN stats
             ELSE IF stats.val.some
             THEN IF md.should_read.ok
                  THEN IF md.should_read.val THEN Ok("read") ELSE Ok("skip")
                  ELSE md.should_read
             ELSE Ok("read")
    ELSE Ok("read")

\* The part of the loop body that decides on a row group from its
\* statistics: "skip", "read", or the error that ends the scan.
row_group_decision(md, predicate) ==
    IF predicate.some /\ predicate.val.stats_evaluator
    THEN LET stats == collect_statistics(md)
         IN  IF ~stats.ok THEN stats
             ELSE IF stats.val.some
             THEN LET should_read == md.should_read
                  IN  IF should_read.ok /\ should_read.val = FALSE THEN Ok("skip")
                      ELSE IF ~(~should_read.ok /\ should_read.err.error = "NotFound")
                      THEN IF should_read.ok THEN Ok("read") ELSE should_read
                      ELSE Ok("read")
             ELSE Ok("read")
    ELSE Ok("read")

\* The loop of read_parquet from row group rg on (rg counts from 1).  dfs is
\* the heights of the frames pushed so far, decoded the log of the calls of
\* the column decoder.
RECURSIVE read_parquet_loop(_, _, _, _, _, _)
read_parquet_loop(row_groups, predicate, rg, remaining_rows, dfs, decoded) ==
    IF rg > Len(row_groups)
    THEN [result |-> Ok(dfs), decoded |-> decoded]
    ELSE LET md == row_groups[rg]
             decision == row_group_decision(md, predicate)
         IN  IF ~decision.ok THEN [result |-> decision, decoded |-> decoded]
             ELSE IF decision.val = "skip"
             THEN read_parquet_loop(row_groups, predicate, rg + 1, remaining_rows,
                                    dfs, decoded)
             ELSE LET chunk_size == md.num_rows
                      rows == to_deserializer_next(remaining_rows, chunk_size)
                      df == apply_predicate([height |-> rows], predicate)
                  IN  read_parquet_loop(row_groups, predicate, rg + 1, md.num_rows,
                          Append(dfs, df),
                          Append(decoded, [rg |-> rg - 1, num_rows |-> remaining_rows,
                                           chunk_size |-> chunk_size, rows |-> rows]))

\* The height of the frames stacked.
RECURSIVE accumulate_dataframes_vertical(_, _)
accumulate_dataframes_vertical(dfs, k) ==
    IF k > Len(dfs) THEN 0
    ELSE dfs[k].height + accumulate_dataframes_vertical(dfs, k + 1)

\* The outcome of read_parquet: the result returned and the log of the calls
\* of the column decoder.
read_parquet(row_groups, limit, predicate) ==
    LET scanned == read_parquet_loop(row_groups, predicate, 1, limit, <<>>, <<>>)
    IN  IF ~scanned.result.ok THEN scanned
        ELSE IF scanned.result.val = <<>>
        THEN [result |-> Ok([height |-> 0]), decoded |-> scanned.decoded]
        ELSE [result |-> Ok([height |->
                 Min(accumulate_dataframes_vertical(scanned.result.val, 1), limit)]),
              decoded |-> scanned.decoded]

ShouldReads ==
    { Ok(TRUE), Ok(FALSE), Err(NotFoundError("a")), Err(ComputeError("cannot compare")) }

RowGroups ==
    { [num_rows |-> n, stats |-> "some", should_read |-> sr] :
          n \in {1, 2}, sr \in ShouldReads }
    \cup { [num_rows |-> n, stats |-> st, should_read |-> Ok(TRUE)] :
          n \in {1, 2}, st \in {"none", "error"} }

Predicates ==
    { None }
    \cup { Some([stats_evaluator |-> ev, selects |-> sel]) :
              ev \in BOOLEAN, sel \in {"all", "none"} }

Limits == {1, 2, 8}

ReadParquet ==
    /\ op = NoCall
    /\ UNCHANGED builderVars
    /\ \E row_groups \in SeqsUpTo(RowGroups, MaxRowGroups), limit \in Limits,
          predicate \in Predicates :
        /\ op' = [fn |-> "read_parquet", row_groups |-> row_groups, limit |-> limit,
                  predicate |-> predicate]
        /\ ret' = read_parquet(row_groups, limit, predicate)
        /\ UNCHANGED <<schema, obj>>

(***************************************************************************)
(* Host adapters.  A value of the Node host is a record of its type and    *)
(* its value.                                                              *)
(***************************************************************************)
JsValue(type, value) == [type |-> type, value |-> value]

JsTypes == {"string", "number", "boolean", "null", "undefined"}

InterpolationStrings ==
    {"nearest", "lower", "higher", "midpoint", "linear", "midpoinp", "cubic", "first"}

\* The values of one type.
JsValues(type) ==
    CASE type = "string" -> { JsValue("string", s) : s \in InterpolationStrings }
      [] type = "number" -> { JsValue("number", n) : n \in {0, 3} }
      [] type = "boolean" -> { JsValue("boolean", b) : b \in BOOLEAN }
      [] type = "null" -> { JsValue("null", "null") }
      [] type = "undefined" -> { JsValue("undefined", "undefined") }

\* The error of napi when a value is not of the type asked for.
InvalidArg(expected) == [error |-> "InvalidArg", expected |-> expected]

\* FromJsUnknown for String.
string_from_js(val) ==
    IF val.type = "string" THEN Ok(val.value) ELSE Err(InvalidArg("string"))

\* FromJsUnknown for i32.
i32_from_js(val) ==
    IF val.type = "number" THEN Ok(val.value) ELSE Err(InvalidArg("number"))

\* FromJsUnknown for QuantileInterpolOptions.
quantile_interpol_options_from_js(val) ==
    LET s == string_from_js(val)
    IN  IF ~s.ok THEN s
        ELSE CASE s.val = "nearest" -> Ok("Nearest")
               [] s.val = "lower" -> Ok("Lower")
               [] s.val = "higher" -> Ok("Higher")
               [] s.val = "midpoinp" -> Ok("Midpoint")
               [] s.val = "linear" -> Ok("Linear")
               [] OTHER -> Panic("quantile interpolation option is not supported")

\* FromJsUnknown for DistinctKeepStrategy.
distinct_keep_strategy_from_js(val) ==
    LET s == string_from_js(val)
    IN  IF ~s.ok THEN s
        ELSE CASE s.val = "first" -> Ok("First")
               [] s.val = "last" -> Ok("Last")
               [] OTHER -> Panic("keep strategy is not supported")

\* FromJsUnknown for bool.
bool_from_js(val) ==
    IF val.type = "boolean" THEN Ok(val.value) ELSE Err(InvalidArg("boolean"))

HostTypes == {"String", "i32", "bool", "QuantileInterpolOptions", "DistinctKeepStrategy"}

\* V::from_js for the type V.
from_js(V, val) ==
    CASE V = "String" -> string_from_js(val)
      [] V = "i32" -> i32_from_js(val)
      [] V = "bool" -> bool_from_js(val)
      [] V = "QuantileInterpolOptions" -> quantile_interpol_options_from_js(val)
      [] V = "DistinctKeepStrategy" -> distinct_keep_strategy_from_js(val)

\* A plausible slip: the error of the inner conversion is handed on.
option_from_js_propagating(V, val) ==
    LET v == from_js(V, val)
    IN  IF IsPanic(v) THEN v
        ELSE IF v.ok THEN Ok(Some(v.val))
        ELSE v

\* FromJsUnknown for Option<V>.
option_from_js(V, val) ==
    LET v == from_js(V, val)
    IN  IF IsPanic(v) THEN v
        ELSE IF v.ok THEN Ok(Some(v.val))
        ELSE Ok(None)

\* PyLazyFrame::quantile: the frame made, named by the call that made it.
quantile(self, quantile_arg, interpolation) ==
    CASE interpolation = "nearest" -> [ldf |-> <<self.ldf, "quantile", quantile_arg, "Nearest">>]
      [] interpolation = "lower" -> [ldf |-> <<self.ldf, "quantile", quantile_arg, "Lower">>]
      [] interpolation = "higher" -> [ldf |-> <<self.ldf, "quantile", quantile_arg, "Higher">>]
      [] interpolation = "midpoint" ->
            [ldf |-> <<self.ldf, "quantile", quantile_arg, "Midpoint">>]
      [] interpolation = "linear" -> [ldf |-> <<self.ldf, "quantile", quantile_arg, "Linear">>]
      [] OTHER -> Panic("not supported")

PyLazyFrame == [ldf |-> "ldf"]

OptionFromJs ==
    /\ op = NoCall
    /\ obj.calls = 0
    /\ UNCHANGED builderVars
    /\ \E V \in HostTypes, type \in JsTypes :
      \E val \in JsValues(type) :
        /\ op' = [fn |-> "option_from_js", V |-> V, val |-> val]
        /\ ret' = option_from_js(V, val)
        /\ UNCHANGED <<schema, obj>>

QuantileInterpolOptionsFromJs ==
    /\ op = NoCall
    /\ obj.calls = 0
    /\ UNCHANGED builderVars
    /\ \E type \in JsTypes :
      \E val \in JsValues(type) :
        /\ op' = [fn |-> "quantile_interpol_options_from_js", val |-> val]
        /\ ret' = quantile_interpol_options_from_js(val)
        /\ UNCHANGED <<schema, obj>>

Quantile ==
    /\ op = NoCall
    /\ obj.calls = 0
    /\ UNCHANGED builderVars
    /\ \E interpolation \in InterpolationStrings :
        /\ op' = [fn |-> "quantile", interpolation |-> interpolation]
        /\ ret' = quantile(PyLazyFrame, "0.5", interpolation)
        /\ UNCHANGED <<schema, obj>>

(***************************************************************************)
(* PyLazyGroupBy: the handle of the Python host on a LazyGroupBy.  The     *)
(* object is its field lgb, with the number of frames it has returned.     *)
(***************************************************************************)
MaxHandleCalls == 3

LazyGroupBy == [lgb |-> "lgb"]

\* A plausible slip: the LazyGroupBy is cloned out of the handle.
take_unwrap_clone(self) == [self |-> self, ret |-> self.lgb.val]

\* self.lgb.take().unwrap(): the handle left empty and the LazyGroupBy taken,
\* or the trap of unwrap on None.
take_unwrap(self) ==
    IF self.lgb.some
    THEN [self |-> [self EXCEPT !.lgb = None], ret |-> self.lgb.val]
    ELSE [self |-> [self EXCEPT !.lgb = None],
          ret |-> Panic("called Option::unwrap() on a None value")]

\* The method of PyLazyGroupBy that hands the LazyGroupBy to method with
\* argument arg: the object after the call and the frame returned.
py_lazy_group_by(self, method, arg) ==
    LET taken == take_unwrap(self)
    IN  IF IsPanic(taken.ret) THEN taken
        ELSE [self |-> [taken.self EXCEPT !.frames = @ + 1],
              ret |-> [ldf |-> <<taken.ret, method, arg>>]]

PyExprLists == { <<>>, <<sum(col("a"))>> }

\* The calls a handle can have had last: none, or one of its methods.
HandleMethods == {"none", "agg", "head", "tail", "apply"}

GroupByAgg ==
    /\ obj.class = "PyLazyGroupBy"
    /\ obj.calls < MaxHandleCalls
    /\ op.fn \in HandleMethods
    /\ UNCHANGED builderVars
    /\ \E aggs \in PyExprLists :
        LET r == py_lazy_group_by(obj, "agg", aggs)
        IN  /\ op' = [fn |-> "agg", arg |-> aggs]
            /\ ret' = r.ret
            /\ obj' = [r.self EXCEPT !.calls = @ + 1]
            /\ UNCHANGED schema

GroupByHead ==
    /\ obj.class = "PyLazyGroupBy"
    /\ obj.calls < MaxHandleCalls
    /\ op.fn \in HandleMethods
    /\ UNCHANGED builderVars
    /\ \E n \in {1, 5} :
        LET r == py_lazy_group_by(obj, "head", Some(n))
        IN  /\ op' = [fn |-> "head", arg |-> Some(n)]
            /\ ret' = r.ret
            /\ obj' = [r.self EXCEPT !.calls = @ + 1]
            /\ UNCHANGED schema

GroupByTail ==
    /\ obj.class = "PyLazyGroupBy"
    /\ obj.calls < MaxHandleCalls
    /\ op.fn \in HandleMethods
    /\ UNCHANGED builderVars
    /\ \E n \in {1, 5} :
        LET r == py_lazy_group_by(obj, "tail", Some(n))
        IN  /\ op' = [fn |-> "tail", arg |-> Some(n)]
            /\ ret' = r.ret
            /\ obj' = [r.self EXCEPT !.calls = @ + 1]
            /\ UNCHANGED schema

GroupByApply ==
    /\ obj.class = "PyLazyGroupBy"
    /\ obj.calls < MaxHandleCalls
    /\ op.fn \in HandleMethods
    /\ UNCHANGED builderVars
    /\ \E lambda \in {"lambda"} :
        LET r == py_lazy_group_by(obj, "apply", lambda)
        IN  /\ op' = [fn |-> "apply", arg |-> lambda]
            /\ ret' = r.ret
            /\ obj' = [r.self EXCEPT !.calls = @ + 1]
            /\ UNCHANGED schema

InitPyLazyGroupBy ==
    /\ schema = SchemaDefault
    /\ op = NoCall
    /\ ret = None
    /\ obj = [class |-> "PyLazyGroupBy", lgb |-> Some(LazyGroupBy), frames |-> 0,
              calls |-> 0]

(***************************************************************************)
(* Series::iter and SeriesIter (polars-core/src/series/iterator.rs).       *)
(* An array is a sequence of nullable values, None being a null slot.  The *)
(* iterator is the object obj; obj.reads is the log of the indices at      *)
(* which the array was read and obj.ended says that next has returned None.*)
(***************************************************************************)
MaxArrayLen == 3

MaxIterCalls == 5

ArrayValues == { None, Some(1), Some(2) }

Arrays == SeqsUpTo(ArrayValues, MaxArrayLen)

SeriesOfChunks(chunks) == [class |-> "Series", chunks |-> chunks]

IterSeries ==
    { SeriesOfChunks(<<arr>>) : arr \in Arrays }
        \cup { SeriesOfChunks(<<>>), SeriesOfChunks(<<<<Some(1)>>, <<Some(2)>>>>) }

\* What a read past the end of the array can produce: the memory behind the
\* buffers decoded as a value, or a fault.
OutOfBoundsReads ==
    { Some(AnyValueNull), Some(AnyValue("Int32", 0)), Panic("invalid memory access") }

\* arr_to_any_value(arr, idx, cat_map, dtype): the value at idx of an Int32
\* array, Null for a null slot; the set holds every outcome of the call.
arr_to_any_value(arr, idx) ==
    IF idx < Len(arr)
    THEN { Some(IF arr[idx + 1].some
                THEN AnyValue("Int32", arr[idx + 1].val)
                ELSE AnyValueNull) }
    ELSE OutOfBoundsReads

iter(self) ==
    IF Len(self.chunks) # 1
    THEN Panic("impl error")
    ELSE LET arr == self.chunks[1]
         IN  [class |-> "SeriesIter", arr |-> arr, idx |-> 0, len |-> Len(arr),
              reads |-> <<>>, ended |-> FALSE, calls |-> 0]

\* SeriesIter::next: the set of (iterator after the call, value returned).
series_iter_next(self) ==
    LET idx == self.idx
        it  == [self EXCEPT !.idx = @ + 1]
    IN  IF idx = it.len
        THEN { [self |-> [it EXCEPT !.ended = TRUE], ret |-> None] }
        ELSE { [self |-> [it EXCEPT !.reads = Append(@, idx)], ret |-> r] :
                   r \in arr_to_any_value(it.arr, idx) }

InitSeries ==
    /\ schema = SchemaDefault
    /\ op = NoCall
    /\ ret = None
    /\ obj \in IterSeries

Iter ==
    /\ obj.class = "Series"
    /\ UNCHANGED builderVars
    /\ UNCHANGED schema
    /\ op' = [fn |-> "iter", self |-> obj]
    /\ LET it == iter(obj)
       IN  IF IsPanic(it)
           THEN /\ ret' = it
                /\ obj' = [class |-> "unwound"]
           ELSE /\ ret' = None
                /\ obj' = it

SeriesIterNext ==
    /\ obj.class = "SeriesIter"
    /\ obj.calls < MaxIterCalls
    /\ UNCHANGED builderVars
    /\ UNCHANGED schema
    /\ \E r \in series_iter_next(obj) :
        /\ op' = [fn |-> "next", self |-> obj]
        /\ ret' = r.ret
        /\ obj' = [r.self EXCEPT !.calls = @ + 1]

(***************************************************************************)
(* finish_reader (polars-io/src/lib.rs).  A reader is the sequence of what *)
(* its calls of next_record_batch return before the final Ok(None): a      *)
(* batch of len rows that conforms to the schema or not, or an error.      *)
(***************************************************************************)
MaxBatches == 3

ArrowError == [error |-> "ArrowError", msg |-> "reader failed"]

\* reader.next_record_batch(), the call number pos of it.
next_record_batch(reader, pos) ==
    IF pos > Len(reader) THEN Ok(None)
    ELSE IF reader[pos].kind = "error" THEN Err(ArrowError)
    ELSE Ok(Some(reader[pos]))

\* DataFrame::try_from((batch, arrow_schema.fields)).
data_frame_try_from(batch) ==
    IF batch.conforms THEN Ok([height |-> batch.len])
    ELSE Err(ComputeError("batch does not match the schema"))

\* predicate.evaluate(&df) followed by df.filter(mask).
evaluate_and_filter(df, predicate) ==
    IF ~predicate.some THEN Ok(df)
    ELSE CASE predicate.val = "error" -> Err(ComputeError("predicate failed"))
           [] predicate.val = "none" -> Ok([height |-> 0])
           [] predicate.val = "all" -> Ok(df)

\* apply_aggregations(&mut df, aggregate): one row per aggregation.
apply_aggregations(df, aggregate) ==
    IF ~aggregate.some THEN Ok(df)
    ELSE IF aggregate.val = "error" THEN Err(ComputeError("aggregation failed"))
    ELSE Ok([height |-> 1])

\* A plausible slip: the loop goes on until the count exceeds n_rows.
stop_after_exceeding(n_rows, num_rows) ==
    n_rows.some /\ num_rows > n_rows.val

\* The test that ends the loop after a batch.
stop_after(n_rows, num_rows) ==
    n_rows.some /\ num_rows >= n_rows.val

\* The while loop from the call number pos of next_record_batch on.  pulled
\* is the log of the calls made of next_record_batch.
RECURSIVE finish_reader_loop(_, _, _, _, _, _, _, _)
finish_reader_loop(reader, n_rows, predicate, aggregate, pos, num_rows, parsed_dfs, pulled) ==
    LET next == next_record_batch(reader, pos)
        log  == Append(pulled, pos)
    IN  IF ~next.ok THEN [result |-> next, pulled |-> log]
        ELSE IF ~next.val.some THEN [result |-> Ok(parsed_dfs), pulled |-> log]
        ELSE LET batch == next.val.val
                 count == num_rows + batch.len
                 df    == data_frame_try_from(batch)
             IN  IF ~df.ok THEN [result |-> df, pulled |-> log]
                 ELSE LET filtered == evaluate_and_filter(df.val, predicate)
                      IN  IF ~filtered.ok THEN [result |-> filtered, pulled |-> log]
                          ELSE LET agg == apply_aggregations(filtered.val, aggregate)
                               IN  IF ~agg.ok THEN [result |-> agg, pulled |-> log]
                                   ELSE IF stop_after(n_rows, count)
                                   THEN [result |-> Ok(Append(parsed_dfs, agg.val)),
                                         pulled |-> log]
                                   ELSE finish_reader_loop(reader, n_rows, predicate,
                                            aggregate, pos + 1, count,
                                            Append(parsed_dfs, agg.val), log)

\* The outcome of finish_reader: the result returned and the log of the calls
\* of next_record_batch.
finish_reader(reader, rechunk, n_rows, predicate, aggregate) ==
    LET loop == finish_reader_loop(reader, n_rows, predicate, aggregate, 1, 0,
                                   <<>>, <<>>)
    IN  IF ~loop.result.ok THEN loop
        ELSE LET df  == [height |-> accumulate_dataframes_vertical(loop.result.val, 1)]
                 agg == apply_aggregations(df, aggregate)
             IN  IF ~agg.ok THEN [result |-> agg, pulled |-> loop.pulled]
                 ELSE [result |-> Ok([height |-> agg.val.height, rechunked |-> rechunk]),
                       pulled |-> loop.pulled]

RecordBatches ==
    { [kind |-> "batch", len |-> n, conforms |-> c] : n \in {1, 2}, c \in BOOLEAN }
        \cup { [kind |-> "error", len |-> 0, conforms |-> FALSE] }

NRows == { None, Some(0), Some(2), Some(3) }

IoPredicates == { None, Some("all"), Some("none"), Some("error") }

ScanAggregations == { None, Some("ok"), Some("error") }

FinishReader ==
    /\ op = NoCall
    /\ UNCHANGED builderVars
    /\ \E reader \in SeqsUpTo(RecordBatches, MaxBatches), n_rows \in NRows,
          predicate \in IoPredicates, aggregate \in ScanAggregations,
          rechunk \in BOOLEAN :
        /\ op' = [fn |-> "finish_reader", reader |-> reader, rechunk |-> rechunk,
                  n_rows |-> n_rows, predicate |-> predicate,
                  aggregate |-> aggregate]
        /\ ret' = finish_reader(reader, rechunk, n_rows, predicate, aggregate)
        /\ UNCHANGED <<schema, obj>>

(***************************************************************************)
(* Specifications.                                                         *)
(*   Spec          the builder: chains of builder calls                    *)
(*   SpecSchema    the functions of Schema and det_melt_schema, applied    *)
(*                 to every schema within the bounds                       *)
(*   SpecDataType  the functions of DataType, applied to every type        *)
(*                 within the bounds                                       *)
(*   SpecCsv       scan_csv, applied to every file within the bounds       *)
(*   SpecAnyValue  the functions of AnyValue, applied to every value and   *)
(*                 pair of values of the model                             *)
(*   SpecArrow     the conversions from and to Arrow, applied to every     *)
(*                 Arrow data type and schema within the bounds            *)
(*   SpecParquet   read_parquet, applied to every file of row groups       *)
(*                 within the bounds                                       *)
(*   SpecHost      the adapters of the Node and Python hosts, applied to   *)
(*                 every host value of the model, and the calls on one     *)
(*                 PyLazyGroupBy handle                                    *)
(***************************************************************************)
IdleBuilder ==
    /\ lp = Moved
    /\ prev = Moved
    /\ call = NoBuilderCall
    /\ status = "ok"

IdleFn ==
    /\ schema = SchemaDefault
    /\ op = NoCall
    /\ ret = None
    /\ obj = NoObject

Init == InitBuilder /\ IdleFn

Next ==
    \/ Project
    \/ WithColumns
    \/ Filter
    \/ Groupby
    \/ Melt
    \/ Join
    \/ Map
    \/ Explode
    \/ Cache
    \/ Sort
    \/ Distinct
    \/ Slice

Spec == Init /\ [][Next]_vars

InitSchema == IdleBuilder /\ InitFn

NextSchema ==
    \/ IndexOf
    \/ Rename
    \/ TryMerge
    \/ DetMeltSchema

SpecSchema == InitSchema /\ [][NextSchema]_vars

InitDataType == IdleBuilder /\ IdleFn

NextDataType ==
    \/ ToPhysical
    \/ IsLogical

SpecDataType == InitDataType /\ [][NextDataType]_vars

InitCsv == IdleBuilder /\ IdleFn

NextCsv ==
    \/ ScanCsv

SpecCsv == InitCsv /\ [][NextCsv]_vars

InitAnyValue == IdleBuilder /\ IdleFn

NextAnyValue ==
    \/ Add
    \/ ToStatic
    \/ Eq
    \/ PartialCmp
    \/ IntoDate
    \/ IntoDatetime
    \/ IntoDuration
    \/ IntoTime
    \/ GetAnyValue

SpecAnyValue == InitAnyValue /\ [][NextAnyValue]_vars

InitArrow == IdleBuilder /\ IdleFn

NextArrow ==
    \/ FromArrow
    \/ RoundTrip

SpecArrow == InitArrow /\ [][NextArrow]_vars

InitParquet == IdleBuilder /\ IdleFn

NextParquet ==
    \/ ReadParquet

SpecParquet == InitParquet /\ [][NextParquet]_vars

InitHost == IdleBuilder /\ InitPyLazyGroupBy

NextHost ==
    \/ OptionFromJs
    \/ QuantileInterpolOptionsFromJs
    \/ Quantile
    \/ GroupByAgg
    \/ GroupByHead
    \/ GroupByTail
    \/ GroupByApply

SpecHost == InitHost /\ [][NextHost]_vars

InitIter == IdleBuilder /\ InitSeries

NextIter ==
    \/ Iter
    \/ SeriesIterNext

SpecIter == InitIter /\ [][NextIter]_vars

InitReader == IdleBuilder /\ IdleFn

NextReader ==
    \/ FinishReader

SpecReader == InitReader /\ [][NextReader]_vars


(***************************************************************************)
(* Properties.                                                             *)
(***************************************************************************)
NamesOf(fields) == { fields[k].name : k \in 1..Len(fields) }

NameSeq(fields) == [k \in 1..Len(fields) |-> fields[k].name]

UniqueNames(fields) ==
    \A i, j \in 1..Len(fields) : fields[i].name = fields[j].name => i = j

\* The 1-based place of the first field of the list that has the name.
FirstPlace(fields, name) ==
    CHOOSE i \in 1..Len(fields) :
        /\ fields[i].name = name
        /\ \A j \in 1..(i - 1) : fields[j].name # name

RECURSIVE Flatten(_)
Flatten(schemas) ==
    IF schemas = <<>> THEN <<>>
    ELSE schemas[1].fields \o Flatten(Tail(schemas))

\* `merged` holds one field per name of `all`, each the first field of `all`
\* with its name, in the order in which the names first appear in `all`.
IsFirstSeenUnion(merged, all) ==
    /\ UniqueNames(merged)
    /\ NamesOf(merged) = NamesOf(all)
    /\ \A k \in 1..Len(merged) : merged[k] = all[FirstPlace(all, merged[k].name)]
    /\ \A p, q \in 1..Len(merged) :
          p < q => FirstPlace(all, merged[p].name) < FirstPlace(all, merged[q].name)

JoinCalled == call.method = "join" /\ status = "ok"

\* C1: the schema of a join is the left fields in order, followed by the
\* right fields whose name is not the output name of a right_on expression,
\* in order, each renamed to name+suffix (type kept) when a left field has
\* its name and unchanged otherwise.
C1_JoinSchema ==
    JoinCalled =>
        LET left == lp_schema(prev).fields
            right == lp_schema(call.other).fields
            keys == { expr_output_name(call.right_on[k]).val :
                         k \in 1..Len(call.right_on) }
            kept == SelectSeq(right, LAMBDA f : f.name \notin keys)
            contributed ==
                [k \in 1..Len(kept) |->
                    IF kept[k].name \in NamesOf(left)
                    THEN [name |-> kept[k].name \o call.options.suffix,
                          data_type |-> kept[k].data_type]
                    ELSE kept[k]]
        IN  lp.schema.fields = left \o contributed

\* A join whose right key is the second field of the right schema and whose
\* first right field collides with a left field: {a, b} joined with {a, b}
\* on b gives {a, b, a_right}.
C1_Witness ==
    /\ JoinCalled
    /\ call.right_on = <<col("b")>>
    /\ NameSeq(lp_schema(call.other).fields) = <<"a", "b">>
    /\ NameSeq(lp_schema(prev).fields) = <<"a", "b">>
    /\ lp.schema.fields =
          <<FieldNew("a", Int32), FieldNew("b", Utf8), FieldNew("a_right", Int32)>>

\* Whether the plan was made by join, melt and with_columns calls alone.
RECURSIVE OnlyJoinMeltWithColumns(_)
OnlyJoinMeltWithColumns(plan) ==
    CASE plan.node = "DataFrameScan" -> UniqueNames(plan.schema.fields)
      [] plan.node = "Join" ->
            /\ OnlyJoinMeltWithColumns(plan.input_left)
            /\ OnlyJoinMeltWithColumns(plan.input_right)
      [] plan.node \in {"Melt", "HStack"} -> OnlyJoinMeltWithColumns(plan.input)
      [] OTHER -> FALSE

\* C2: a plan built from scans with unique field names by join, melt and
\* with_columns calls has a schema without two fields of the same name.
C2_NoDuplicateNames ==
    (status = "ok" /\ OnlyJoinMeltWithColumns(lp)) => UniqueNames(lp_schema(lp).fields)

TryMergeCalled == op.fn = "try_merge"

\* C3: try_merge returns Ok with one field per distinct name of the inputs,
\* in order of first appearance, each with the type of its first occurrence.
C3_TryMergeFirstWins ==
    TryMergeCalled =>
        /\ ret.ok
        /\ IsFirstSeenUnion(ret.val.fields, Flatten(op.schemas))

\* try_merge([{a:Int32}, {a:Utf8, b:Utf8}]) = {a:Int32, b:Utf8}.
C3_Witness ==
    /\ TryMergeCalled
    /\ op.schemas = <<SchemaNew(<<FieldNew("a", Int32)>>),
                      SchemaNew(<<FieldNew("a", Utf8), FieldNew("b", Utf8)>>)>>
    /\ ret = Ok(SchemaNew(<<FieldNew("a", Int32), FieldNew("b", Utf8)>>))

RenameCalled == op.fn = "rename"

\* The (old name, new name) pairs rename zips together.
RenamePairs == 1..(IF Len(op.old_names) < Len(op.new_names)
                   THEN Len(op.old_names) ELSE Len(op.new_names))

\* The pairs whose old name is first found at 1-based place i of the receiver.
PairsAt(i) == { k \in RenamePairs : FirstPlace(schema.fields, op.old_names[k]) = i }

LastOf(S) == CHOOSE k \in S : \A m \in S : m <= k

\* C4: rename returns NotFound and no schema when an old name is absent, the
\* receiver being as it was; otherwise it returns a schema of the same
\* length and types in which a field has a new name only when an old name
\* was found at its place (the last such pair giving the name).
C4_RenameAtomic ==
    RenameCalled =>
        /\ schema = op.self
        /\ IF \E k \in 1..Len(op.old_names) : op.old_names[k] \notin NamesOf(schema.fields)
           THEN /\ ~ret.ok
                /\ "val" \notin DOMAIN ret
                /\ ret.err.error = "NotFound"
           ELSE /\ ret.ok
                /\ Len(ret.val.fields) = Len(schema.fields)
                /\ \A i \in 1..Len(schema.fields) :
                      /\ ret.val.fields[i].data_type = schema.fields[i].data_type
                      /\ ret.val.fields[i].name =
                            IF PairsAt(i) # {} THEN op.new_names[LastOf(PairsAt(i))]
                            ELSE schema.fields[i].name

\* A rename whose first old name is present and whose second is absent.
C4_Witness ==
    /\ RenameCalled
    /\ Len(op.old_names) = 2 /\ Len(op.new_names) = 2
    /\ op.old_names[1] \in NamesOf(schema.fields)
    /\ op.old_names[2] \notin NamesOf(schema.fields)
    /\ op.new_names[1] # op.old_names[1]
    /\ ~ret.ok

IndexOfCalled == op.fn = "index_of"

\* C5: index_of returns the 0-based place of the first field with the name,
\* always below the schema's length, and NotFound listing every field name
\* in order when no field has the name.
C5_IndexOfFirstOrNotFound ==
    IndexOfCalled =>
        IF op.name \in NamesOf(schema.fields)
        THEN /\ ret.ok
             /\ ret.val \in 0..(Len(schema.fields) - 1)
             /\ schema.fields[ret.val + 1].name = op.name
             /\ \A j \in 1..ret.val : schema.fields[j].name # op.name
        ELSE /\ ~ret.ok
             /\ ret.err.error = "NotFound"
             /\ ret.err.name = op.name
             /\ ret.err.valid_fields = NameSeq(schema.fields)

\* A lookup in a schema that holds the name twice.
C5_Witness ==
    /\ IndexOfCalled
    /\ Len(schema.fields) = 2
    /\ schema.fields[1].name = op.name
    /\ schema.fields[2].name = op.name
    /\ ret = Ok(0)

\* C6: to_physical is idempotent, and is_logical(T) is true exactly when T
\* differs from to_physical(T).
C6_PhysicalIdempotent ==
    /\ op.fn = "to_physical" => to_physical(ret) = ret
    /\ op.fn = "is_logical" => (ret <=> op.self # to_physical(op.self))

\* The physical type of a Datetime with a time zone.
C6_Witness ==
    /\ op.fn = "to_physical"
    /\ op.self = Datetime("Nanoseconds", Some("UTC"))
    /\ ret = Int64

DetMeltSchemaCalled == op.fn = "det_melt_schema"

\* C7: for non-empty value_vars whose first entry is a field of the input,
\* det_melt_schema returns the input fields not named in value_vars, in
\* order, then variable:Utf8, then value with the type of value_vars[0].
C7_MeltSchema ==
    (/\ DetMeltSchemaCalled
     /\ Len(op.value_vars) > 0
     /\ op.value_vars[1] \in NamesOf(schema.fields)) =>
        /\ ~IsPanic(ret)
        /\ ret.fields =
              SelectSeq(schema.fields,
                        LAMBDA f : \A v \in 1..Len(op.value_vars) : op.value_vars[v] # f.name)
              \o <<[name |-> "variable", data_type |-> Utf8],
                   [name |-> "value",
                    data_type |-> schema.fields[FirstPlace(schema.fields,
                                                           op.value_vars[1])].data_type]>>

\* Two value vars of different types: the value column has the first's type.
C7_Witness ==
    /\ DetMeltSchemaCalled
    /\ op.value_vars = <<"a", "b">>
    /\ schema = SchemaNew(<<FieldNew("b", Utf8), FieldNew("a", Int32)>>)
    /\ ret = SchemaNew(<<FieldNew("variable", Utf8), FieldNew("value", Int32)>>)


\* A duplicate name made by one with_columns call, by a join whose suffixed
\* name is taken, or by a melt of a frame that has a "variable" column.
C2_Witness ==
    /\ status = "ok"
    /\ OnlyJoinMeltWithColumns(lp)
    /\ ~UniqueNames(lp_schema(lp).fields)

GroupbyCalled == call.method = "groupby" /\ status = "ok"

\* C8: the schema of a groupby is the first-seen union of the keys' fields
\* in the default context followed by the rewritten aggregations' fields in
\* the aggregation context: keys first, and an aggregation named like a key
\* adds nothing and leaves the key's type.
C8_GroupbySchema ==
    GroupbyCalled =>
        LET input_schema == lp_schema(prev)
            key_fields == [k \in 1..Len(call.keys) |->
                              to_field(call.keys[k], input_schema, Default).val]
            agg_fields == [k \in 1..Len(lp.aggs) |->
                              to_field(lp.aggs[k], input_schema, Aggregation).val]
        IN  /\ lp.node = "Aggregate"
            /\ lp.aggs = rewrite_projections(call.aggs, input_schema, call.keys)
            /\ IsFirstSeenUnion(lp.schema.fields, key_fields \o agg_fields)

\* groupby([a], [sum(a)]) over a:Int32: the aggregation is Int64 in the
\* aggregation context and named like the key, whose Int32 is kept.
C8_Witness ==
    /\ GroupbyCalled
    /\ call.keys = <<col("a")>>
    /\ call.aggs = <<sum(col("a"))>>
    /\ to_field(sum(col("a")), lp_schema(prev), Aggregation) = Ok(FieldNew("a", Int64))
    /\ lp.schema = SchemaNew(<<FieldNew("a", Int32)>>)

ProjectCalled == call.method = "project"

\* C9: a project whose rewritten expression list is empty does not trap and
\* returns a Udf node over the unchanged input, with the empty schema and a
\* function that yields a frame without columns; with a non-empty list whose
\* expressions all have a field it returns a Projection node over the input
\* with the schema of the expressions.
C9_EmptyProjection ==
    ProjectCalled =>
        LET input_schema == lp_schema(prev)
            rewritten == rewrite_projections(call.exprs, input_schema, <<>>)
        IN  IF rewritten = <<>>
            THEN /\ status = "ok"
                 /\ lp.node = "Udf"
                 /\ lp.input = prev
                 /\ lp.schema = Some(SchemaNew(<<>>))
                 /\ lp.function.returns.ok
                 /\ lp.function.returns.val.columns = <<>>
            ELSE status = "ok" =>
                    /\ lp.node = "Projection"
                    /\ lp.input = prev
                    /\ lp.expr = rewritten
                    /\ lp.schema.fields =
                          [k \in 1..Len(rewritten) |->
                              to_field(rewritten[k], input_schema, Default).val]

\* A wildcard projected over a plan without columns: the list is empty only
\* after rewriting.
C9_Witness ==
    /\ ProjectCalled
    /\ call.exprs = <<Wildcard>>
    /\ lp_schema(prev).fields = <<>>
    /\ lp.node = "Udf"
    /\ lp_schema(lp) = SchemaDefault

FilterCalled == call.method = "filter"

ExplodeCalled == call.method = "explode"

\* C11: explode makes an Explode node over the plan it was called on,
\* listing the names of its rewritten arguments in order, exactly when every
\* rewritten argument is a plain column; otherwise it traps and no Explode
\* node exists.
C11_ExplodeColumnsOnly ==
    ExplodeCalled =>
        LET rewritten == rewrite_projections(call.columns, lp_schema(prev), <<>>)
        IN  IF \A k \in 1..Len(rewritten) : rewritten[k].expr = "Column"
            THEN /\ status = "ok"
                 /\ lp.node = "Explode"
                 /\ lp.input = prev
                 /\ Len(lp.columns) = Len(rewritten)
                 /\ \A k \in 1..Len(rewritten) : lp.columns[k] = rewritten[k].name
            ELSE /\ status = "panicked"
                 /\ lp = Moved

\* explode was given a column and an aliased column, and trapped.
C11_Witness ==
    /\ ExplodeCalled
    /\ call.columns = <<col("b"), alias(col("a"), "x")>>
    /\ status = "panicked"


ScanCsvCalled == op.fn = "scan_csv"

MagicNumbers == { <<31, 139>>, <<120, 1>>, <<120, 156>>, <<120, 218>> }

\* C12: scan_csv on a file that starts with a compression magic number
\* returns the error "cannot scan compressed csv" having read the first two
\* bytes only, without schema inference and without a CsvScan node; on any
\* other file of two bytes or more it seeks to byte 0 after the magic number
\* was read, and the bytes read for the schema start at byte 0.
C12_CompressedCsvRefused ==
    (ScanCsvCalled /\ op.content.some /\ Len(op.content.val) >= 2) =>
        LET bytes == op.content.val
        IN  IF SubSeq(bytes, 1, 2) \in MagicNumbers
            THEN /\ ~ret.result.ok
                 /\ ret.result.err = ComputeError(
                        "cannot scan compressed csv; use read_csv for compressed data")
                 /\ ret.file.log = <<[io |-> "read", from |-> 0, to |-> 2]>>
                 /\ ret.inference = None
            ELSE /\ ret.result.ok
                 /\ ret.result.val.node = "CsvScan"
                 /\ ret.file.log = <<[io |-> "read", from |-> 0, to |-> 2],
                                     [io |-> "seek", to |-> 0],
                                     [io |-> "read", from |-> 0, to |-> Len(bytes)]>>
                 /\ (~op.schema.some => ret.inference = Some(bytes))

\* scan_csv refused a gzip file of three bytes.
C12_Witness ==
    /\ ScanCsvCalled
    /\ op.content = Some(<<31, 139, 97>>)
    /\ ~ret.result.ok


\* a is the value b and no trap: variants are compared before payloads.
IsAnyValue(a, b) == ~IsPanic(a) /\ a.av = b.av /\ a = b

AddCalled == op.fn = "add"

AddVariants == {"Int32", "Int64", "UInt32", "UInt64", "Float32", "Float64"}

\* The sum of two i32 is an i32.
SumInRange(l, r) ==
    /\ ~(r > 0 /\ l > Int32Max - r)
    /\ ~(r < 0 /\ l < Int32Min - r)

\* s is the sum of the payloads l and r of the variant.  No payload is the
\* sum of two i32 whose sum is not an i32.
IsSum(variant, s, l, r) ==
    CASE variant \in {"Float32", "Float64"} ->
            IF l.nan \/ r.nan THEN s = NaN ELSE s = Float(l.x + r.x)
      [] variant = "Int32" -> SumInRange(l, r) /\ s = l + r
      [] OTHER -> s = l + r

\* The sum of two i32, wrapped around to 32 bits.
IsWrappedSum(s, l, r) ==
    IF r > 0 THEN s = ((l - Int32Max) - 1) + ((r - Int32Max) - 1)
    ELSE s = ((l + Int32Max) + 1) + ((r + Int32Max) + 1)

\* C13 as stated: add returns Null when an operand is Null, the sum in the
\* operands' variant when both are of one variant among Int32, Int64,
\* UInt32, UInt64, Float32, Float64, and traps for every other pairing.
C13_AddReturnsSum ==
    AddCalled =>
        IF op.self.av = "Null" \/ op.rhs.av = "Null" THEN IsAnyValue(ret, AnyValueNull)
        ELSE IF op.self.av = op.rhs.av /\ op.self.av \in AddVariants
        THEN /\ ~IsPanic(ret)
             /\ ret.av = op.self.av
             /\ IsSum(op.self.av, ret.v, op.self.v, op.rhs.v)
        ELSE IsPanic(ret)

\* C13: add returns Null when an operand is Null; for two operands of one
\* variant among Int32, Int64, UInt32, UInt64, Float32, Float64 it returns
\* the sum in that variant when the sum is in the variant's range, and when
\* it is not, traps in a build with overflow checks and returns the wrapped
\* sum in a build without; it traps for every other pairing.
C13_AddReturnsSumInRange ==
    AddCalled =>
        IF op.self.av = "Null" \/ op.rhs.av = "Null" THEN IsAnyValue(ret, AnyValueNull)
        ELSE IF op.self.av = op.rhs.av /\ op.self.av \in AddVariants
        THEN IF op.self.av = "Int32" /\ ~SumInRange(op.self.v, op.rhs.v)
             THEN IF op.overflow_checks THEN IsPanic(ret)
                  ELSE /\ ~IsPanic(ret)
                       /\ ret.av = "Int32"
                       /\ IsWrappedSum(ret.v, op.self.v, op.rhs.v)
             ELSE /\ ~IsPanic(ret)
                  /\ ret.av = op.self.av
                  /\ IsSum(op.self.av, ret.v, op.self.v, op.rhs.v)
        ELSE IsPanic(ret)

\* The largest i32 and 3 were added in a build without overflow checks.
C13_Witness ==
    /\ AddCalled
    /\ IsAnyValue(op.self, AnyValue("Int32", Int32Max))
    /\ IsAnyValue(op.rhs, AnyValue("Int32", 3))
    /\ ~op.overflow_checks
    /\ IsAnyValue(ret, AnyValue("Int32", Int32Min + 2))


EqCalled == op.fn = "eq"

\* The payloads of two values of one variant are equal: == on the payload
\* types, under which a float that is not a number equals nothing.
EqualPayloads(a, b) ==
    IF a.av \in {"Float32", "Float64"}
    THEN ~a.v.nan /\ ~b.v.nan /\ a.v.x = b.v.x
    ELSE a = b

\* C14: Null equals Null; comparing two List values or two Object values
\* traps; two values of any other single variant are equal exactly when
\* their payloads are, unit and time zone of Datetime and unit of Duration
\* included; values of different variants are unequal, without a trap.
C14_Equality ==
    EqCalled =>
        IF op.self.av # op.other.av
        THEN ~IsPanic(ret) /\ ret.value = FALSE
        ELSE CASE op.self.av = "Null" -> ~IsPanic(ret) /\ ret.value = TRUE
               [] op.self.av \in {"List", "Object"} -> IsPanic(ret)
               [] OTHER -> /\ ~IsPanic(ret)
                           /\ ret.value = EqualPayloads(op.self, op.other)

\* Two List values were compared, and the comparison trapped.
C14_Witness ==
    /\ EqCalled
    /\ op.self.av = "List"
    /\ op.other.av = "List"
    /\ IsPanic(ret)


PartialCmpCalled == op.fn = "partial_cmp"

IntegerVariants == {"UInt8", "UInt16", "UInt32", "UInt64", "Int8", "Int16", "Int32", "Int64"}

\* The ordering of two numbers.
Ordered(l, r) == CASE l < r -> Less [] l = r -> Equal [] l > r -> Greater

\* C15: partial_cmp never traps; it returns None for two values of different
\* variants, and for two values of one numeric variant the ordering of the
\* payloads under their type: the ordering of the numbers, and for floats
\* None when one of them is not a number.
C15_PartialOrdering ==
    PartialCmpCalled =>
        /\ ~IsPanic(ret)
        /\ op.self.av # op.other.av => ret = None
        /\ (op.self.av = op.other.av /\ op.self.av \in IntegerVariants) =>
                ret = Some(Ordered(op.self.v, op.other.v))
        /\ (op.self.av = op.other.av /\ op.self.av \in {"Float32", "Float64"}) =>
                IF op.self.v.nan \/ op.other.v.nan THEN ret = None
                ELSE ret = Some(Ordered(op.self.v.x, op.other.v.x))

\* An Int32 and an Int64 of the same payload were compared: None.
C15_Witness ==
    /\ PartialCmpCalled
    /\ op.self.av = "Int32"
    /\ op.other.av = "Int64"
    /\ op.self.v = op.other.v
    /\ ret = None


ToStaticCalled == op.fn = "to_static"

\* C16: to_static returns Ok of the same variant and payload for Null,
\* Boolean, the integers, the floats, Date, Time and List, and a ComputeError
\* for Utf8, Categorical and Object.
C16_ToStatic ==
    ToStaticCalled =>
        /\ op.self.av \in ({"Null", "Boolean", "Float32", "Float64", "Date", "Time", "List"}
                            \cup IntegerVariants) =>
                ret.ok /\ IsAnyValue(ret.val, op.self)
        /\ op.self.av \in {"Utf8", "Categorical", "Object"} =>
                ~ret.ok /\ ret.err.error = "ComputeError"

\* to_static refused a Utf8 value.
C16_Witness ==
    /\ ToStaticCalled
    /\ op.self.av = "Utf8"
    /\ ~ret.ok

\* The variants whose payload holds a reference: the string of Utf8, the
\* time zone of Datetime, the mapping of Categorical, the object of Object.
BorrowingVariants == {"Utf8", "Datetime", "Categorical", "Object"}

\* C17: to_static succeeds for every value that borrows nothing, a Duration
\* among them.
C17_StaticWhenNotBorrowing ==
    (ToStaticCalled /\ op.self.av \notin BorrowingVariants) => ret.ok

\* to_static refused a Duration.
C17_Witness ==
    /\ ToStaticCalled
    /\ op.self.av = "Duration"
    /\ ~ret.ok
    /\ ret.err.error = "ComputeError"


IntoCalled == op.fn \in {"into_date", "into_datetime", "into_duration", "into_time"}

\* The physical variant a converter takes.
PhysicalVariant(fn) == IF fn = "into_date" THEN "Int32" ELSE "Int64"

\* The logical value a converter makes of the payload v.
LogicalValue(o, v) ==
    CASE o.fn = "into_date" -> AnyValue("Date", v)
      [] o.fn = "into_datetime" -> AnyValueDatetime(v, o.tu, o.tz)
      [] o.fn = "into_duration" -> AnyValueDuration(v, o.tu)
      [] o.fn = "into_time" -> AnyValue("Time", v)

\* C18: into_date, into_datetime, into_duration and into_time return Null for
\* Null, make of the physical variant (Int32 for Date, Int64 for the others)
\* the logical variant with the same payload and the unit and time zone
\* given, and trap for every other variant; the value a DateChunked answers
\* at an index is the into_date of the physical value there.
C18_LogicalConverters ==
    /\ IntoCalled =>
          CASE op.self.av = "Null" -> IsAnyValue(ret, AnyValueNull)
            [] op.self.av = PhysicalVariant(op.fn) ->
                  IsAnyValue(ret, LogicalValue(op, op.self.v))
            [] OTHER -> IsPanic(ret)
    /\ op.fn = "get_any_value" =>
          IF op.self[op.i + 1].some
          THEN IsAnyValue(ret, AnyValue("Date", op.self[op.i + 1].val))
          ELSE IsAnyValue(ret, AnyValueNull)

\* into_date was given an Int64, and trapped.
C18_Witness ==
    /\ op.fn = "into_date"
    /\ op.self.av = "Int64"
    /\ IsPanic(ret)


FromArrowCalled == op.fn = "data_type_from"

\* The unit of the table for an Arrow unit.
TableUnit(tu) ==
    CASE tu = "Nanosecond" -> "Nanoseconds"
      [] tu = "Millisecond" -> "Milliseconds"
      [] tu = "Microsecond" -> "Nanoseconds"
      [] tu = "Second" -> "Milliseconds"

\* C19: the conversion of an Arrow data type follows the table: Duration and
\* Timestamp keep the units Nanosecond and Millisecond, Microsecond becomes
\* Nanoseconds and Second becomes Milliseconds, the time zone is kept;
\* Date64 becomes Datetime(Milliseconds, no time zone); Utf8 and LargeUtf8
\* become Utf8; Time32 and Time64 of any unit become Time; List and LargeList
\* become List of the converted inner type; every Dictionary becomes
\* Categorical.
C19_ArrowTable ==
    FromArrowCalled =>
        LET dt == op.dt
        IN  /\ dt[1] = "Duration" => ret = Value(Duration(TableUnit(dt[2])))
            /\ dt[1] = "Timestamp" => ret = Value(Datetime(TableUnit(dt[2]), dt[3]))
            /\ dt[1] = "Date64" => ret = Value(Datetime("Milliseconds", None))
            /\ dt[1] \in {"Utf8", "LargeUtf8"} => ret = Value(Utf8)
            /\ dt[1] \in {"Time32", "Time64"} => ret = Value(Time)
            /\ dt[1] \in {"List", "LargeList"} =>
                  LET inner == data_type_from(dt[2].data_type)
                  IN  IF IsPanic(inner) THEN IsPanic(ret)
                      ELSE ret = Value(List(inner.value))
            /\ dt[1] = "Dictionary" => ret = Value(Categorical)

\* A Timestamp in microseconds with a time zone became a Datetime in
\* nanoseconds with that time zone.
C19_Witness ==
    /\ FromArrowCalled
    /\ op.dt = ArrowTimestamp("Microsecond", Some("UTC"))
    /\ ret = Value(Datetime("Nanoseconds", Some("UTC")))


RoundTripCalled == op.fn = "round_trip"

\* A data type that holds neither Object nor Unknown.
RECURSIVE Supported(_)
Supported(t) ==
    CASE t[1] \in {"Object", "Unknown"} -> FALSE
      [] t[1] = "List" -> Supported(t[2])
      [] OTHER -> TRUE

\* C20: a schema whose field types hold neither Object nor Unknown comes
\* back from Arrow with the same number of fields, the same names in the
\* same order, and every field of its original data type.
C20_SchemaRoundTrip ==
    (RoundTripCalled /\ \A k \in 1..Len(op.self.fields) :
                            Supported(op.self.fields[k].data_type)) =>
        /\ ~IsPanic(ret)
        /\ Len(ret.value.fields) = Len(op.self.fields)
        /\ \A k \in 1..Len(op.self.fields) :
              /\ ret.value.fields[k].name = op.self.fields[k].name
              /\ ret.value.fields[k].data_type = op.self.fields[k].data_type

\* A schema with a field of type List(Categorical) came back with that field
\* of type List(UInt32).
C20_Witness ==
    /\ RoundTripCalled
    /\ op.self = SchemaNew(<<FieldNew("a", List(Categorical))>>)
    /\ ret = Value(SchemaNew(<<FieldNew("a", List(UInt32))>>))


ReadParquetCalled == op.fn = "read_parquet"

\* The predicate's statistics evaluator is asked about the row group.
Asked(md) ==
    /\ op.predicate.some
    /\ op.predicate.val.stats_evaluator
    /\ md.stats = "some"

\* The row group is skipped: the evaluator answered Ok(false).
Skipped(md) == Asked(md) /\ md.should_read.ok /\ ~md.should_read.val

\* The row group ends the scan: the evaluator answered an error other than
\* NotFound, or the statistics could not be collected.
Aborting(md) ==
    \/ Asked(md) /\ ~md.should_read.ok /\ md.should_read.err.error # "NotFound"
    \/ op.predicate.some /\ op.predicate.val.stats_evaluator /\ md.stats = "error"

\* The indices, counted from 0, of the row groups among the first n that are
\* not skipped.
RECURSIVE NotSkipped(_, _)
NotSkipped(row_groups, n) ==
    IF n = 0 THEN <<>>
    ELSE NotSkipped(row_groups, n - 1)
            \o (IF Skipped(row_groups[n]) THEN <<>> ELSE <<n - 1>>)

\* C21: with a predicate that has a statistics evaluator, a row group is
\* skipped exactly when should_read answers Ok(false); a NotFound error does
\* not end the scan and the row group is read; any other error ends
\* read_parquet with that error; Ok(true), missing statistics and a predicate
\* without evaluator, or no predicate, all have the row group read.
C21_RowGroupPruning ==
    ReadParquetCalled =>
        LET rgs == op.row_groups
            aborting == { k \in 1..Len(rgs) :
                            /\ Aborting(rgs[k])
                            /\ \A j \in 1..(k - 1) : ~Aborting(rgs[j]) }
            read == [k \in 1..Len(ret.decoded) |-> ret.decoded[k].rg]
        IN  IF aborting = {}
            THEN /\ ret.result.ok
                 /\ read = NotSkipped(rgs, Len(rgs))
            ELSE \A k \in aborting :
                 /\ ~ret.result.ok
                 /\ ret.result.err = (IF rgs[k].stats = "error"
                                      THEN collect_statistics(rgs[k]).err
                                      ELSE rgs[k].should_read.err)
                 /\ read = NotSkipped(rgs, k - 1)

\* The evaluator answered NotFound for the first row group and Ok(false) for
\* the second: the first was read, the second skipped, the scan returned a
\* frame.
C21_Witness ==
    /\ ReadParquetCalled
    /\ Len(op.row_groups) = 2
    /\ Asked(op.row_groups[1])
    /\ ~op.row_groups[1].should_read.ok
    /\ op.row_groups[1].should_read.err.error = "NotFound"
    /\ Skipped(op.row_groups[2])
    /\ ret.result.ok
    /\ Len(ret.decoded) = 1
    /\ ret.decoded[1].rg = 0


\* The rows of the row groups decoded before the k-th call of the decoder.
RECURSIVE RowsReadBefore(_, _)
RowsReadBefore(decoded, k) ==
    IF k <= 1 THEN 0
    ELSE decoded[k - 1].chunk_size + RowsReadBefore(decoded, k - 1)

RECURSIVE TotalRows(_, _)
TotalRows(row_groups, k) ==
    IF k > Len(row_groups) THEN 0
    ELSE row_groups[k].num_rows + TotalRows(row_groups, k + 1)

\* C26: the number of rows the column decoder is asked for, for each row
\* group read, is limit less the rows of the row groups read before it (0
\* when those exceed limit); so when limit is at least the number of rows of
\* the file, every row group read is decoded in full.
C26_RemainingRows ==
    ReadParquetCalled =>
        /\ \A k \in 1..Len(ret.decoded) :
              LET before == RowsReadBefore(ret.decoded, k)
              IN  ret.decoded[k].num_rows =
                      (IF before > op.limit THEN 0 ELSE op.limit - before)
        /\ op.limit >= TotalRows(op.row_groups, 1) =>
              \A k \in 1..Len(ret.decoded) :
                  ret.decoded[k].rows = ret.decoded[k].chunk_size

\* A file of a row group of 1 row and a row group of 2 rows was read with
\* limit 8 and no predicate: the decoder was asked for 1 row of the second
\* row group, and the frame has 2 rows.
C26_Witness ==
    /\ ReadParquetCalled
    /\ op.limit = 8
    /\ ~op.predicate.some
    /\ Len(op.row_groups) = 2
    /\ op.row_groups[1].num_rows = 1
    /\ op.row_groups[2].num_rows = 2
    /\ ret.decoded[2].num_rows = 1
    /\ ret.decoded[2].rows = 1
    /\ ret.result.ok
    /\ ret.result.val.height = 2


OptionFromJsCalled == op.fn = "option_from_js"

\* C22: the adapter of Option<V> never returns an error: it returns
\* Ok(Some(v)) when the conversion of V returns Ok(v), and Ok(None) when the
\* conversion of V returns an error.
C22_OptionSwallowsErrors ==
    OptionFromJsCalled =>
        LET v == from_js(op.V, op.val)
        IN  /\ IsPanic(ret) \/ ret.ok
            /\ ~IsPanic(v) =>
                  /\ ~IsPanic(ret)
                  /\ v.ok => ret = Ok(Some(v.val))
                  /\ ~v.ok => ret = Ok(None)

\* An Option<i32> was asked of a string: Ok(None).
C22_Witness ==
    /\ OptionFromJsCalled
    /\ op.V = "i32"
    /\ op.val.type = "string"
    /\ ret = Ok(None)

InterpolationNames == {"nearest", "lower", "higher", "midpoint", "linear"}

\* The QuantileInterpolOptions value of a name.
InterpolationOf(name) ==
    CASE name = "nearest" -> "Nearest"
      [] name = "lower" -> "Lower"
      [] name = "higher" -> "Higher"
      [] name = "midpoint" -> "Midpoint"
      [] name = "linear" -> "Linear"

\* C23: the adapter of the Node host and the adapter of the Python host take
\* the names nearest, lower, higher, midpoint and linear, each for the same
\* QuantileInterpolOptions value, and trap on every other string.
C23_SameInterpolationNames ==
    /\ (op.fn = "quantile_interpol_options_from_js" /\ op.val.type = "string") =>
          IF op.val.value \in InterpolationNames
          THEN ret = Ok(InterpolationOf(op.val.value))
          ELSE IsPanic(ret)
    /\ op.fn = "quantile" =>
          IF op.interpolation \in InterpolationNames
          THEN ~IsPanic(ret) /\ ret.ldf[4] = InterpolationOf(op.interpolation)
          ELSE IsPanic(ret)

\* The adapter of the Node host trapped on the name midpoint.
C23_Witness ==
    /\ op.fn = "quantile_interpol_options_from_js"
    /\ op.val.type = "string"
    /\ op.val.value = "midpoint"
    /\ IsPanic(ret)

\* C29: a PyLazyGroupBy handle is used once: its first call of agg, head,
\* tail or apply empties the handle and returns a frame, every later call
\* traps, and the handle never returns a second frame.
C29_HandleSingleUse ==
    (obj.class = "PyLazyGroupBy" /\ op.fn \in (HandleMethods \ {"none"})) =>
        /\ ~obj.lgb.some
        /\ obj.frames = 1
        /\ IF obj.calls = 1 THEN ~IsPanic(ret) /\ ret.ldf[1] = LazyGroupBy
           ELSE IsPanic(ret)

\* A second call on the handle trapped; one frame was returned.
C29_Witness ==
    /\ obj.class = "PyLazyGroupBy"
    /\ obj.calls = 2
    /\ op.fn = "head"
    /\ IsPanic(ret)
    /\ obj.frames = 1


(***************************************************************************)
(* C28.  SeriesIter yields the values at the indices 0, 1, ..., len-1 in   *)
(* that order and then None; once next has returned None every later call  *)
(* returns None, and the array is never read at an index >= len.           *)
(***************************************************************************)
SeriesIterNextCalled == obj.class = "SeriesIter" /\ op.fn = "next"

ValueAt(arr, i) ==
    Some(IF arr[i + 1].some THEN AnyValue("Int32", arr[i + 1].val) ELSE AnyValueNull)

C28_SeriesIterInOrder ==
    SeriesIterNextCalled =>
        /\ \A k \in 1..Len(obj.reads) : obj.reads[k] < obj.len
        /\ ~IsPanic(ret)
        /\ IF obj.calls <= obj.len
           THEN /\ ret.some
                /\ ret = ValueAt(obj.arr, obj.calls - 1)
                /\ obj.reads = [k \in 1..obj.calls |-> k - 1]
           ELSE ~ret.some

C28_Witness ==
    /\ SeriesIterNextCalled
    /\ obj.len = 2
    /\ obj.calls = obj.len + 2
    /\ op.self.ended
    /\ Len(obj.reads) = 3
    /\ obj.reads[3] = 3


(***************************************************************************)
(* C30.  Equality and ordering of AnyValue agree: for two values a and b   *)
(* drawn from Null, Boolean, Utf8 and the integer variants, a == b holds   *)
(* exactly when partial_cmp(a, b) returns Some(Equal).                      *)
(***************************************************************************)
EqOrdVariants == {"Null", "Boolean", "Utf8"} \cup IntegerVariants

ComparesEqual(a, b) ==
    LET o == partial_cmp(a, b) IN o.some /\ o.val = Equal

C30_EqAgreesWithOrdering ==
    (EqCalled /\ op.self.av \in EqOrdVariants /\ op.other.av \in EqOrdVariants) =>
        /\ ~IsPanic(ret)
        /\ ret.value <=> ComparesEqual(op.self, op.other)

\* Two equal strings were compared with ==: true, while partial_cmp of the
\* same two values is None.
C30_Witness ==
    /\ EqCalled
    /\ op.self.av = "Utf8"
    /\ op.other.av = "Utf8"
    /\ ~IsPanic(ret)
    /\ ret.value
    /\ partial_cmp(op.self, op.other) = None


(***************************************************************************)
(* C27.  finish_reader pulls the record batches strictly in order; with    *)
(* n_rows Some(n) it pulls no further batch once the rows of the batches   *)
(* pulled so far, counted before the predicate, are at least n; with       *)
(* n_rows None it pulls until the reader returns None; an error from the   *)
(* reader, the predicate or the aggregation ends the loop and is returned  *)
(* instead of a frame.                                                     *)
(***************************************************************************)
FinishReaderCalled == op.fn = "finish_reader"

\* The rows of the first k items of the reader, as the reader counts them.
RECURSIVE RowsPulled(_, _)
RowsPulled(reader, k) ==
    IF k = 0 THEN 0 ELSE reader[k].len + RowsPulled(reader, k - 1)

\* Handling the item number k of the reader fails: the reader's own error, a
\* batch that does not fit the schema, or the predicate or the aggregation
\* failing on it.
FailsAt(k) ==
    /\ k <= Len(op.reader)
    /\ \/ op.reader[k].kind = "error"
       \/ ~op.reader[k].conforms
       \/ op.predicate = Some("error")
       \/ op.aggregate = Some("error")

\* The budget is used up by the first k batches.
BudgetMetAt(k) ==
    /\ k <= Len(op.reader)
    /\ op.n_rows.some
    /\ RowsPulled(op.reader, k) >= op.n_rows.val

OperatorCalled == call.method # "from_existing_df" /\ status = "ok"

\* The direct children of a node, in order.
Children(plan) ==
    (IF "input" \in DOMAIN plan THEN <<plan.input>> ELSE <<>>)
        \o (IF "input_left" \in DOMAIN plan THEN <<plan.input_left>> ELSE <<>>)
        \o (IF "input_right" \in DOMAIN plan THEN <<plan.input_right>> ELSE <<>>)

\* The number of nodes of a plan.
RECURSIVE Nodes(_)
Nodes(plan) ==
    LET ch == Children(plan)
    IN  1 + (IF Len(ch) >= 1 THEN Nodes(ch[1]) ELSE 0)
          + (IF Len(ch) >= 2 THEN Nodes(ch[2]) ELSE 0)

\* Every node of the plan has at most two children, two only if it is a Join.
RECURSIVE AtMostBinary(_)
AtMostBinary(plan) ==
    LET ch == Children(plan)
    IN  /\ Len(ch) <= 2
        /\ Len(ch) = 2 => plan.node = "Join"
        /\ \A k \in 1..Len(ch) : AtMostBinary(ch[k])

\* The node that each method makes.
NodeOf(method) ==
    CASE method = "cache" -> {"Cache"}
      [] method = "filter" -> {"Selection"}
      [] method = "sort" -> {"Sort"}
      [] method = "slice" -> {"Slice"}
      [] method = "distinct" -> {"Distinct"}
      [] method = "explode" -> {"Explode"}
      [] method = "melt" -> {"Melt"}
      [] method = "groupby" -> {"Aggregate"}
      [] method = "with_columns" -> {"HStack"}
      [] method = "map" -> {"Udf"}
      [] method = "project" -> {"Projection", "Udf"}
      [] method = "join" -> {"Join"}

C24_OneNewRootPerCall ==
    OperatorCalled =>
        /\ lp.node \in NodeOf(call.method)
        /\ IF call.method = "join"
           THEN /\ Children(lp) = <<prev, call.other>>
                /\ Nodes(lp) = Nodes(prev) + Nodes(call.other) + 1
           ELSE /\ Children(lp) = <<prev>>
                /\ Nodes(lp) = Nodes(prev) + 1
        /\ AtMostBinary(lp)

\* A plan that was cached is cached again: two Cache nodes, one over the
\* other.
C24_Witness ==
    /\ OperatorCalled
    /\ call.method = "cache"
    /\ prev.node = "Cache"
    /\ lp.node = "Cache"
    /\ lp.input = prev
    /\ Nodes(lp) = 3

(***************************************************************************)
(* C25.  with_columns(exprs) derives its schema from the input schema by   *)
(* processing the rewritten expressions in order: an expression whose      *)
(* output name is an input field name replaces that field at the same      *)
(* position (name kept, type from the expression); an expression whose     *)
(* output name is not an input field name adds one field at the end; the   *)
(* input fields not named by any expression keep position and type.        *)
(***************************************************************************)
WithColumnsCalled == call.method = "with_columns" /\ status = "ok"

\* The fields of the rewritten expressions, in order.
ExprFields == [k \in 1..Len(lp.exprs) |-> to_field(lp.exprs[k], lp_schema(prev), Default).val]

InputFields == lp_schema(prev).fields

\* The field number i of the input is the one that its name finds.
Found(i) == \A j \in 1..(i - 1) : InputFields[j].name # InputFields[i].name

\* The expressions that replace the input field number i, in order.
Replacing(i) ==
    SelectSeq(ExprFields, LAMBDA f : Found(i) /\ f.name = InputFields[i].name)

\* The fields of the expressions that name no input field, in order.
Added ==
    SelectSeq(ExprFields,
              LAMBDA f : \A i \in 1..Len(InputFields) : InputFields[i].name # f.name)

C25_WithColumnsSchema ==
    WithColumnsCalled =>
        LET out == lp_schema(lp).fields
            n   == Len(InputFields)
        IN  /\ Len(out) = n + Len(Added)
            /\ \A i \in 1..n :
                  /\ out[i].name = InputFields[i].name
                  /\ out[i] = IF Replacing(i) = <<>> THEN InputFields[i]
                              ELSE Replacing(i)[Len(Replacing(i))]
            /\ \A j \in 1..Len(Added) : out[n + j] = Added[j]

\* Over the columns a: Int32 and b: Utf8, b was written to a and a to the
\* new column y: a takes the type of b in place, y comes last.
C25_Witness ==
    /\ WithColumnsCalled
    /\ call.exprs = <<alias(col("b"), "a"), alias(col("a"), "y")>>
    /\ InputFields = <<FieldNew("a", Int32), FieldNew("b", Utf8)>>
    /\ lp_schema(lp).fields
         = <<FieldNew("a", Utf8), FieldNew("b", Utf8), FieldNew("y", Int32)>>

====
